---- MODULE Spec2Model ----
(***************************************************************************)
(* Model of the review pipeline of the AI code review assistant:           *)
(*   - process_review        (backend/app/worker/processor.py)             *)
(*   - ReviewSupervisor and the review graph                               *)
(*                           (backend/app/agents/supervisor.py)            *)
(*   - CommentFormatter      (backend/app/agents/formatter.py)             *)
(*   - RateLimiter           (backend/app/services/queue.py)               *)
(* One run of process_review is followed from the construction of its      *)
(* services to its return.  Every call to a collaborator (persistence,     *)
(* source-control host, rate limiter, notification channel, model) either  *)
(* returns or raises; the choice is nondeterministic.                      *)
(***************************************************************************)
EXTENDS Naturals, Integers, Sequences, FiniteSets, TLC

VARIABLES
    pc,             \* position of process_review
    propagated,     \* TRUE when an exception left process_review
    failedAt,       \* the step whose call raised first ("none" when no call raised)
    reviewStatus,   \* status column of the persisted Review record
    reviewCommentId,\* comment_id column of the persisted Review record
    statusWrites,   \* statuses update_status wrote to the Review record, in order
    failedWriteOk,  \* TRUE when the update_status(FAILED) of the handler returned
    repo_settings,  \* value fetched at step 1b (NoSettings for None)
    broadcasts,     \* stages passed to broadcast_progress, in call order
    rateKey,        \* redis key rate_limit:gemini: <<>> when absent, <<count>> otherwise
    attempt,        \* loop variable of the rate-limit loop
    cpCalls,        \* results returned by can_proceed, in call order
    sleeps,         \* number of time.sleep calls of the rate loop
    incrCalls,      \* number of rate_limiter.increment calls
    supAgents,      \* agents held by the ReviewSupervisor built at step 5
    orchState,      \* position of graph.invoke
    orchCalls,      \* number of supervisor.run calls
    passState,      \* per analysis node: idle, running, done, raised
    buckets,        \* ReviewState: logic_findings, security_findings, quality_findings
    final_comment,  \* ReviewState: final_comment
    analyzeCalls,   \* per pass: number of analyze calls
    critiqueCalls,  \* number of critique calls
    renderCalls,    \* number of CommentFormatter.format calls
    all_findings,   \* list built at step 6
    persisted,      \* list handed to finding_repo.create_many that was stored
    createCalls,    \* number of create_many calls
    posted,         \* comment body accepted by post_comment (NoComment when none)
    postCalls,      \* number of post_comment calls
    comment_id,     \* local comment_id of process_review
    effects,        \* calls process_review made to its collaborators, in call order
    diff,           \* local diff of process_review
    diff_content,   \* diff_content column of the persisted Review record
    critique_result,\* the three lists of the response critique returned
    llm_pc,         \* invoke_structured: idle, call, sleep, returned, raised
    llm_schema,     \* invoke_structured: output_schema
    llm_max_retries,\* invoke_structured: max_retries
    llm_attempt,    \* invoke_structured: loop variable attempt
    llm_log,        \* invoke_structured: what each model call gave, in call order
    llm_sleeps,     \* invoke_structured: number of time.sleep(1) calls
    llm_out,        \* invoke_structured: the record returned or the error raised
    ctx_pc,         \* _fetch_file_contents: idle, loop, return, returned
    ctx_files,      \* _fetch_file_contents: files, as the number of its paths 1..n
    ctx_i,          \* _fetch_file_contents: position of the loop in files[:5]
    ctx_fetched,    \* what each get_file_content call gave, in call order
    file_contents,  \* _fetch_file_contents: file_contents, in insertion order
    total_bytes,    \* _fetch_file_contents: total_bytes
    ctx_result,     \* _fetch_file_contents: the value returned
    active_connections, \* ConnectionManager: the list registered for the review
    ws_life,        \* per websocket: new, open (endpoint in its loop), closed
    ws_pc,          \* broadcast: idle, checked, loop, send, cleanup, done, raised
    ws_i,           \* broadcast: index of the list iterator of the for loop
    ws_cur,         \* broadcast: loop variable websocket
    ws_detached,    \* TRUE when the list under iteration left the registry
    disconnected,   \* broadcast: local list disconnected
    ws_got,         \* websockets whose send_json of this broadcast returned
    ws_start,       \* websockets registered when this broadcast was called
    ws_left,        \* websockets of ws_start their endpoint has removed since
    ws_keyed,       \* review_id in self.active_connections
    rl_key,         \* redis key rate_limit:gemini shared by the runs
    rl_pc,          \* per run: idle, check, sleep, admitted, increment, done, failed
    rl_attempt,     \* per run: loop variable attempt of the rate-limit loop
    rl_passes,      \* can_proceed calls that returned True in the current window
    rl_serial,      \* TRUE when the runs are executed one after another
    dp_pc,          \* steps 3 to 3b of process_review: extract, filter, context, run, done
    dp_raw,         \* the diff get_pr_diff returned
    dp_diff,        \* local diff of process_review
    dp_files,       \* local files of process_review
    dp_ignored,     \* local ignored_files of process_review
    dp_patterns,    \* local user_patterns of process_review
    dp_run,         \* the diff and the files passed to supervisor.run
    dp_fetched,     \* the paths _fetch_file_contents passed to get_file_content
    dp_context,     \* the keys of file_contents, empty for None
    fmt_pc,         \* CommentFormatter.format: idle, call, returned
    fmt_in,         \* CommentFormatter.format: the three lists passed
    fmt_out,        \* CommentFormatter.format: the lines of the text returned
    lg_pc,          \* position of the language selection of a review
    lg_files,       \* files: the paths detect_language is given
    lg_settings,    \* repo_settings of the review
    lg_lang,        \* detected_lang
    lg_prompts,     \* logic_prompt, security_prompt, quality_prompt
    lg_agents,      \* prompt_template of the agent the supervisor holds, per pass
    esc_pc,         \* escape repair: idle, call, fixed, parsed, again
    esc_in,         \* the text of a string of the response, character by character
    esc_out,        \* what _fix_json_escapes returned for esc_in
    esc_parsed,     \* what json.loads gave for esc_out
    esc_twice,      \* what _fix_json_escapes returned for esc_out
    sch_pc,         \* validated run: idle, passes, critique, done, raised
    sch_pass,       \* per analysis node: running, done, raised
    sch_resp,       \* the response data being validated, and what became of it
    sch_buckets,    \* ReviewState: the three lists of findings
    lm_self,        \* RateLimiter: max_requests and window_seconds of the instance
    lm_key,         \* the Redis key rate_limit:<key>: exists, count, ttl
    lm_pc,          \* per caller of increment: idle, incr, done, raised
    lm_count,       \* per caller of increment: local count
    lm_expired,     \* per caller of increment: expire was called in this call
    lm_failed,      \* TRUE once a call of increment has raised
    lm_query,       \* get_remaining and can_proceed on the present value of the key
    wh_pc,          \* handle_github_webhook: idle, event, verify, parse, action, repository, review, schedule, responded
    wh_secret,      \* settings.github_webhook_secret
    wh_request,     \* the request: event header, signature header, body
    wh_repo_known,  \* the repository has a record
    wh_created,     \* Review records created for the request
    wh_scheduled,   \* process_review jobs scheduled for the request
    wh_reviews,     \* Review records created over all requests
    wh_jobs,        \* process_review jobs scheduled over all requests
    wh_handled,     \* requests received
    wh_response     \* the response to the request

vars == <<pc, propagated, failedAt, reviewStatus, reviewCommentId,
          statusWrites, failedWriteOk, repo_settings, broadcasts, rateKey,
          attempt, cpCalls, sleeps, incrCalls, supAgents, orchState,
          orchCalls, passState, buckets, final_comment, analyzeCalls,
          critiqueCalls, renderCalls, all_findings, persisted, createCalls,
          posted, postCalls, comment_id, effects, diff, diff_content,
          critique_result, llm_pc, llm_schema, llm_max_retries, llm_attempt,
          llm_log, llm_sleeps, llm_out, ctx_pc, ctx_files, ctx_i, ctx_fetched,
          file_contents, total_bytes, ctx_result, active_connections, ws_life,
          ws_pc, ws_i, ws_cur, ws_detached, disconnected, ws_got, ws_start,
          ws_left, ws_keyed, rl_key, rl_pc, rl_attempt, rl_passes, rl_serial,
          dp_pc, dp_raw, dp_diff, dp_files, dp_ignored, dp_patterns, dp_run,
          dp_fetched, dp_context, fmt_pc, fmt_in, fmt_out, lg_pc, lg_files,
          lg_settings, lg_lang, lg_prompts, lg_agents, esc_pc, esc_in,
          esc_out, esc_parsed, esc_twice, sch_pc, sch_pass, sch_resp,
          sch_buckets, lm_self, lm_key, lm_pc, lm_count, lm_expired,
          lm_failed, lm_query, wh_pc, wh_secret, wh_request, wh_repo_known,
          wh_created, wh_scheduled, wh_reviews, wh_jobs, wh_handled,
          wh_response>>

driverVars == <<pc, propagated, failedAt, reviewStatus, reviewCommentId,
                statusWrites, failedWriteOk, repo_settings, broadcasts>>
rateVars == <<rateKey, attempt, cpCalls, sleeps, incrCalls>>
orchVars == <<supAgents, orchState, orchCalls, passState, buckets, final_comment,
              analyzeCalls, critiqueCalls, renderCalls, critique_result>>
outVars == <<all_findings, persisted, createCalls, posted, postCalls, comment_id>>
stepVars == <<effects, diff, diff_content>>
mainVars == <<driverVars, rateVars, orchVars, outVars, stepVars>>
llmVars == <<llm_pc, llm_schema, llm_max_retries, llm_attempt, llm_log,
             llm_sleeps, llm_out>>
ctxVars == <<ctx_pc, ctx_files, ctx_i, ctx_fetched, file_contents, total_bytes,
             ctx_result>>
wsVars == <<active_connections, ws_life, ws_pc, ws_i, ws_cur, ws_detached,
            disconnected, ws_got, ws_start, ws_left, ws_keyed>>
rlVars == <<rl_key, rl_pc, rl_attempt, rl_passes, rl_serial>>
dpVars == <<dp_pc, dp_raw, dp_diff, dp_files, dp_ignored, dp_patterns, dp_run,
            dp_fetched, dp_context>>
fmtVars == <<fmt_pc, fmt_in, fmt_out>>
lgVars == <<lg_pc, lg_files, lg_settings, lg_lang, lg_prompts, lg_agents>>
escVars == <<esc_pc, esc_in, esc_out, esc_parsed, esc_twice>>
schVars == <<sch_pc, sch_pass, sch_resp, sch_buckets>>
lmVars == <<lm_self, lm_key, lm_pc, lm_count, lm_expired, lm_failed, lm_query>>
whVars == <<wh_pc, wh_secret, wh_request, wh_repo_known, wh_created,
            wh_scheduled, wh_reviews, wh_jobs, wh_handled, wh_response>>
libVars == <<llmVars, ctxVars, wsVars, rlVars, dpVars, fmtVars, lgVars,
             escVars, schVars, lmVars, whVars>>
llmRest == <<mainVars, ctxVars, wsVars, rlVars, dpVars, fmtVars, lgVars,
             escVars, schVars, lmVars, whVars>>
ctxRest == <<mainVars, llmVars, wsVars, rlVars, dpVars, fmtVars, lgVars,
             escVars, schVars, lmVars, whVars>>
wsRest == <<mainVars, llmVars, ctxVars, rlVars, dpVars, fmtVars, lgVars,
            escVars, schVars, lmVars, whVars>>
rlRest == <<mainVars, llmVars, ctxVars, wsVars, dpVars, fmtVars, lgVars,
            escVars, schVars, lmVars, whVars>>
dpRest == <<mainVars, llmVars, ctxVars, wsVars, rlVars, fmtVars, lgVars,
            escVars, schVars, lmVars, whVars>>
fmtRest == <<mainVars, llmVars, ctxVars, wsVars, rlVars, dpVars, lgVars,
             escVars, schVars, lmVars, whVars>>
lgRest == <<mainVars, llmVars, ctxVars, wsVars, rlVars, dpVars, fmtVars,
            escVars, schVars, lmVars, whVars>>
escRest == <<mainVars, llmVars, ctxVars, wsVars, rlVars, dpVars, fmtVars,
             lgVars, schVars, lmVars, whVars>>
schRest == <<mainVars, llmVars, ctxVars, wsVars, rlVars, dpVars, fmtVars,
             lgVars, escVars, lmVars, whVars>>
lmRest == <<mainVars, llmVars, ctxVars, wsVars, rlVars, dpVars, fmtVars,
            lgVars, escVars, schVars, whVars>>
whRest == <<mainVars, llmVars, ctxVars, wsVars, rlVars, dpVars, fmtVars,
            lgVars, escVars, schVars, lmVars>>

----------------------------------------------------------------------------
(* Bounds of the model *)

\* largest number of findings the reconciliation pass returns, over its three
\* buckets together
MaxFindings == 2

\* largest number of findings the three analysis passes return together
MaxPassFindings == 1

----------------------------------------------------------------------------
(* Values *)

Passes == {"logic", "security", "quality"}

AgentSeverities == {"critical", "warning", "info"}
Severity == {"critical", "high", "medium", "low", "info"}
Titles == {"t"}

AgentFinding == [severity : AgentSeverities, title : Titles]

\* the findings an analysis pass returns: one severity is enough, since the
\* lists of the passes are read by nothing but the critique request, and the
\* critique response (any AgentFinding) replaces them (supervisor.py:98-103)
PassFinding == [severity : {"warning"}, title : Titles]

NoSettings == [none |-> TRUE]
NoKey == <<>>
NoComment == [kind |-> "none", summary |-> <<>>, sections |-> <<>>]
EmptyComment == [kind |-> "empty", summary |-> <<>>, sections |-> <<>>]
NullId == "null"
NoDiff == <<"None">>
CommentId == "id"

AgentsEnabled == [Passes -> BOOLEAN]
Settings == [enabled : BOOLEAN, agents_enabled : AgentsEnabled,
             severity_threshold : Severity]

BSeq(S, n) == UNION {[1..k -> S] : k \in 0..n}

RECURSIVE SumLen(_, _)
SumLen(f, S) ==
    IF S = {} THEN 0
    ELSE LET p == CHOOSE x \in S : TRUE
         IN Len(f[p]) + SumLen(f, S \ {p})

EmptyBuckets == [p \in Passes |-> <<>>]

----------------------------------------------------------------------------
(* processor.py: pure helpers *)

\* map_agent_severity: critical -> critical, warning -> medium, info -> info,
\* anything else -> info
map_agent_severity(agent_severity) ==
    CASE agent_severity = "critical" -> "critical"
      [] agent_severity = "warning" -> "medium"
      [] agent_severity = "info" -> "info"
      [] OTHER -> "info"

\* map_agent_type: the three names map to themselves, anything else to logic
map_agent_type(agent_type_str) ==
    IF agent_type_str \in Passes THEN agent_type_str ELSE "logic"

\* SEVERITY_RANK.get(severity, 4)
SEVERITY_RANK(severity) ==
    CASE severity = "critical" -> 0
      [] severity = "high" -> 1
      [] severity = "medium" -> 2
      [] severity = "low" -> 3
      [] severity = "info" -> 4
      [] OTHER -> 4

\* _map_finding: AgentFinding -> FindingCreate
_map_finding(finding, agent_type) ==
    [agent_type |-> map_agent_type(agent_type),
     severity |-> map_agent_severity(finding.severity),
     title |-> finding.title]

\* severity_threshold = repo_settings.severity_threshold if repo_settings else INFO
severity_threshold(rs) ==
    IF rs # NoSettings THEN rs.severity_threshold ELSE "info"

\* variant of Keeps: strict comparison
KeepsStrict(mapped, threshold_rank) ==
    SEVERITY_RANK(mapped.severity) < threshold_rank

\* the test of step 6: SEVERITY_RANK.get(mapped.severity, 4) <= threshold_rank
Keeps(mapped, threshold_rank) ==
    SEVERITY_RANK(mapped.severity) <= threshold_rank

\* one of the three loops of step 6 over a bucket
RECURSIVE FilterBucket(_, _, _)
FilterBucket(bucket, agent_type, threshold_rank) ==
    IF bucket = <<>> THEN <<>>
    ELSE LET mapped == _map_finding(Head(bucket), agent_type)
             rest == FilterBucket(Tail(bucket), agent_type, threshold_rank)
         IN IF Keeps(mapped, threshold_rank) THEN <<mapped>> \o rest ELSE rest

\* step 6: all_findings, from the logic, security and quality buckets in turn
CollectFindings(result, rs) ==
    LET threshold_rank == SEVERITY_RANK(severity_threshold(rs))
    IN FilterBucket(result["logic"], "logic", threshold_rank)
       \o FilterBucket(result["security"], "security", threshold_rank)
       \o FilterBucket(result["quality"], "quality", threshold_rank)

----------------------------------------------------------------------------
(* formatter.py: CommentFormatter *)

\* variant of SEVERITY_ORDER: info before warning
SEVERITY_ORDER_info_first == <<"critical", "info", "warning">>

SEVERITY_ORDER == <<"critical", "warning", "info">>

RECURSIVE Tagged(_, _)
Tagged(bucket, label) ==
    IF bucket = <<>> THEN <<>>
    ELSE <<[finding |-> Head(bucket), agent |-> label]>> \o Tagged(Tail(bucket), label)

\* variant of TaggedFindings: the security findings come first
TaggedFindingsSecurityFirst(logic_findings, security_findings, quality_findings) ==
    Tagged(security_findings, "Security") \o Tagged(logic_findings, "Logic")
        \o Tagged(quality_findings, "Quality")

\* all_findings of format: (finding, agent label) pairs, logic then security
\* then quality
TaggedFindings(logic_findings, security_findings, quality_findings) ==
    Tagged(logic_findings, "Logic") \o Tagged(security_findings, "Security")
        \o Tagged(quality_findings, "Quality")

RECURSIVE OfSeverity(_, _)
OfSeverity(tagged, severity) ==
    IF tagged = <<>> THEN <<>>
    ELSE LET rest == OfSeverity(Tail(tagged), severity)
         IN IF Head(tagged).finding.severity = severity
            THEN <<Head(tagged)>> \o rest ELSE rest

\* the summary lines and the sections, for the severities i.. of SEVERITY_ORDER
RECURSIVE SummaryLines(_, _)
SummaryLines(tagged, i) ==
    IF i > Len(SEVERITY_ORDER) THEN <<>>
    ELSE LET count == Len(OfSeverity(tagged, SEVERITY_ORDER[i]))
             rest == SummaryLines(tagged, i + 1)
         IN IF count > 0
            THEN <<[severity |-> SEVERITY_ORDER[i], count |-> count,
                    plural |-> IF count # 1 THEN "issues" ELSE "issue"]>> \o rest
            ELSE rest

RECURSIVE Sections(_, _)
Sections(tagged, i) ==
    IF i > Len(SEVERITY_ORDER) THEN <<>>
    ELSE LET findings == OfSeverity(tagged, SEVERITY_ORDER[i])
             rest == Sections(tagged, i + 1)
         IN IF findings # <<>>
            THEN <<[severity |-> SEVERITY_ORDER[i], entries |-> findings]>> \o rest
            ELSE rest

_format_no_issues == [kind |-> "no_issues", summary |-> <<>>, sections |-> <<>>]

\* CommentFormatter.format
Format(logic_findings, security_findings, quality_findings) ==
    LET tagged == TaggedFindings(logic_findings, security_findings, quality_findings)
    IN IF tagged = <<>> THEN _format_no_issues
       ELSE [kind |-> "report",
             summary |-> SummaryLines(tagged, 1),
             sections |-> Sections(tagged, 1)]

\* The text format returns is "\n".join(lines); an element of lines is
\* modelled by its kind and by the values it is built from.
Line(kind, arg) == [line |-> kind, arg |-> arg]

\* _format_no_issues, lines 158-163
NoIssuesLines ==
    <<Line("title", <<>>), Line("blank", <<>>), Line("no_issues", <<>>),
      Line("blank", <<>>), Line("rule", <<>>), Line("footer", <<>>)>>

RECURSIVE SummaryText(_)
\* line 67, for each summary entry
SummaryText(summary) ==
    IF summary = <<>> THEN <<>>
    ELSE <<Line("summary", <<Head(summary).severity, Head(summary).count,
                             Head(summary).plural>>)>>
         \o SummaryText(Tail(summary))

RECURSIVE EntriesText(_)
\* lines 86-88: _format_finding of each pair, each followed by ""
EntriesText(entries) ==
    IF entries = <<>> THEN <<>>
    ELSE <<Line("finding", <<Head(entries).finding, Head(entries).agent>>),
           Line("blank", <<>>)>>
         \o EntriesText(Tail(entries))

RECURSIVE SectionsText(_)
\* lines 79-88, for each severity that has findings
SectionsText(sections) ==
    IF sections = <<>> THEN <<>>
    ELSE <<Line("blank", <<>>), Line("section_heading", <<Head(sections).severity>>),
           Line("blank", <<>>)>>
         \o EntriesText(Head(sections).entries)
         \o SectionsText(Tail(sections))

\* the list lines of format when it returns (line 94), or the lines of
\* _format_no_issues
FormatLines(logic_findings, security_findings, quality_findings) ==
    LET comment == Format(logic_findings, security_findings, quality_findings)
    IN IF comment = _format_no_issues THEN NoIssuesLines
       ELSE <<Line("title", <<>>), Line("blank", <<>>), Line("summary_heading", <<>>)>>
            \o SummaryText(comment.summary)
            \o SectionsText(comment.sections)
            \o <<Line("rule", <<>>), Line("footer", <<>>)>>

----------------------------------------------------------------------------
(* Text.  A string is the sequence of its tokens: a token is a separator
   character (".", "/", " ", "*") or a maximal run of other characters.  A
   diff is the sequence of its lines; a line that starts with "diff --git "
   has kind "git" and holds the rest of the line, another line is "text"
   (some non-blank character) or "blank" (whitespace only). *)

app_py == <<"app", ".", "py">>
docs_md == <<"docs", ".", "md">>
yarn_lock == <<"yarn", ".", "lock">>
gemfile_lock == <<"vendor", "/", "Gemfile", ".", "lock">>
package_lock_json == <<"package-lock", ".", "json">>
pnpm_lock_yaml == <<"pnpm-lock", ".", "yaml">>
api_generated_ts == <<"api", ".", "generated", ".", "ts">>
\* a file yarn.lock in a directory named "lib b"
lib_b_yarn_lock == <<"lib", " ", "b", "/", "yarn", ".", "lock">>

Range(seq) == {seq[k] : k \in 1..Len(seq)}

\* "diff --git a/<a> b/<b>"
HeaderLine(a, b) ==
    [kind |-> "git", rest |-> <<"a", "/">> \o a \o <<" ", "b", "/">> \o b]

\* "diff --git <rest>"
GitLine(rest) == [kind |-> "git", rest |-> rest]

TextLine == [kind |-> "text", rest |-> <<>>]
BlankLine == [kind |-> "blank", rest |-> <<>>]

----------------------------------------------------------------------------
(* utils/codeguardignore.py *)

DEFAULT_IGNORE_PATTERNS ==
    << <<"*", ".", "lock">>,
       <<"*", ".", "min", ".", "js">>,
       <<"*", ".", "min", ".", "css">>,
       package_lock_json,
       yarn_lock,
       pnpm_lock_yaml,
       <<"*", ".", "generated", ".", "*">>,
       <<"*", ".", "pb", ".", "go">>,
       <<"*", ".", "pb", ".", "py">> >>

RECURSIVE fnmatch(_, _)
\* fnmatch.fnmatch for patterns of literals and "*": "*" matches any run of
\* characters, "/" and "." included
fnmatch(name, pattern) ==
    IF pattern = <<>> THEN name = <<>>
    ELSE IF Head(pattern) = "*"
    THEN fnmatch(name, Tail(pattern))
         \/ (name # <<>> /\ fnmatch(Tail(name), pattern))
    ELSE /\ name # <<>>
         /\ Head(name) = Head(pattern)
         /\ fnmatch(Tail(name), Tail(pattern))

RECURSIVE Basename(_)
\* file_path.split("/")[-1]
Basename(file_path) ==
    IF "/" \in Range(file_path) THEN Basename(Tail(file_path)) ELSE file_path

should_ignore_file(file_path, patterns) ==
    \E k \in 1..Len(patterns) :
        \/ fnmatch(file_path, patterns[k])
        \/ fnmatch(Basename(file_path), patterns[k])
        \/ ("/" \in Range(patterns[k]) /\ fnmatch(file_path, patterns[k]))

\* the lines of a .codeguardignore file: a pattern (with the blanks around it
\* that strip removes), a comment, a blank line
IgnoreLine(kind, pattern) == [kind |-> kind, pattern |-> pattern]

RECURSIVE parse_ignore_file(_)
parse_ignore_file(content) ==
    IF content = <<>> THEN <<>>
    ELSE IF Head(content).kind = "pattern"
    THEN <<Head(content).pattern>> \o parse_ignore_file(Tail(content))
    ELSE parse_ignore_file(Tail(content))

NoMatch == <<>>

\* the first k >= 1 such that " b/" follows the first k tokens of rest
RECURSIVE ShortestBefore(_, _)
ShortestBefore(rest, k) ==
    IF k + 3 > Len(rest) THEN 0
    ELSE IF SubSeq(rest, k + 1, k + 3) = <<" ", "b", "/">> THEN k
    ELSE ShortestBefore(rest, k + 1)

\* variant of HeaderPath: any line that starts with "diff --git a/" gives a
\* path, the rest of the line when " b/" does not follow
HeaderPathLoose(line) ==
    IF line.kind = "git" /\ Len(line.rest) >= 2
       /\ SubSeq(line.rest, 1, 2) = <<"a", "/">>
    THEN LET after == SubSeq(line.rest, 3, Len(line.rest))
             k == ShortestBefore(after, 1)
         IN IF k = 0 THEN after ELSE SubSeq(after, 1, k)
    ELSE NoMatch

\* group 1 of r"^diff --git a/(.+?) b/" on a line, NoMatch when the line does
\* not match
HeaderPath(line) ==
    IF line.kind = "git" /\ Len(line.rest) >= 2
       /\ SubSeq(line.rest, 1, 2) = <<"a", "/">>
    THEN LET after == SubSeq(line.rest, 3, Len(line.rest))
             k == ShortestBefore(after, 1)
         IN IF k = 0 THEN NoMatch ELSE SubSeq(after, 1, k)
    ELSE NoMatch

RECURSIVE SplitSections(_)
\* re.split(r"(?=^diff --git )", diff, flags=re.MULTILINE): the text before
\* the first "diff --git " line (empty when there is none), then one piece
\* for each such line
SplitSections(d) ==
    IF d = <<>> THEN << <<>> >>
    ELSE LET front == SplitSections(SubSeq(d, 1, Len(d) - 1))
             last == d[Len(d)]
         IN IF last.kind = "git"
            THEN Append(front, <<last>>)
            ELSE [front EXCEPT ![Len(front)] = Append(@, last)]

\* not section.strip()
IsBlankSection(section) == \A k \in 1..Len(section) : section[k].kind = "blank"

\* re.match(r"^diff --git a/(.+?) b/", section)
SectionPath(section) ==
    IF section = <<>> THEN NoMatch ELSE HeaderPath(Head(section))

RECURSIVE FilterSections(_, _)
\* the loop of filter_diff, lines 97-114, and the join of line 116
FilterSections(file_sections, all_patterns) ==
    IF file_sections = <<>>
    THEN [filtered_diff |-> <<>>, kept_files |-> <<>>, ignored_files |-> <<>>]
    ELSE LET section == Head(file_sections)
             rest == FilterSections(Tail(file_sections), all_patterns)
             file_path == SectionPath(section)
         IN IF IsBlankSection(section) THEN rest
            ELSE IF file_path = NoMatch
            THEN [rest EXCEPT !.filtered_diff = section \o @]
            ELSE IF should_ignore_file(file_path, all_patterns)
            THEN [rest EXCEPT !.ignored_files = <<file_path>> \o @]
            ELSE [rest EXCEPT !.filtered_diff = section \o @,
                              !.kept_files = <<file_path>> \o @]

\* variant of filter_diff: only the patterns of the repository are applied
filter_diff_user_only(d, patterns) ==
    FilterSections(SplitSections(d), patterns)

filter_diff(d, patterns) ==
    FilterSections(SplitSections(d), DEFAULT_IGNORE_PATTERNS \o patterns)

RECURSIVE extract_files_from_diff(_)
\* processor.py:114-128: group 1 of every match of the header pattern, in
\* the order of the text
extract_files_from_diff(d) ==
    IF d = <<>> THEN <<>>
    ELSE LET rest == extract_files_from_diff(Tail(d))
         IN IF HeaderPath(Head(d)) # NoMatch
            THEN <<HeaderPath(Head(d))>> \o rest ELSE rest

\* the diff of the pull request of the run: three file sections
PrDiff ==
    <<HeaderLine(app_py, app_py), TextLine,
      HeaderLine(yarn_lock, yarn_lock), TextLine,
      HeaderLine(docs_md, docs_md), TextLine>>

\* the pattern lists a .codeguardignore file of the repository may hold
UserPatterns == {<<>>, <<docs_md>>}

----------------------------------------------------------------------------
(* queue.py: RateLimiter *)

max_requests == 15

\* variant of can_proceed: the comparison is strict
can_proceed_strict(key) ==
    ~(key # NoKey /\ key[1] > max_requests)

\* can_proceed: False exactly when the key exists and holds >= max_requests
can_proceed(key) ==
    ~(key # NoKey /\ key[1] >= max_requests)

\* increment: redis.incr creates the key at 1 or adds 1
increment(key) ==
    IF key = NoKey THEN <<1>> ELSE <<key[1] + 1>>

----------------------------------------------------------------------------
(* processor.py: process_review *)

\* variant of max_retries: one more attempt
max_retries_plus_one == 3 + 1

max_retries == 3

ReviewStatus == {"pending", "processing", "completed", "failed"}

\* an exception raised inside the try block reaches the handler
Raise(step) ==
    /\ pc' = "handler"
    /\ failedAt' = step

\* db/repositories.py ReviewRepo.update_status, when the update is accepted
update_status(status) ==
    /\ reviewStatus' = status
    /\ statusWrites' = Append(statusWrites, status)

\* lines 24-35: the stages and their percentages
PROGRESS_STAGES ==
    [fetching_diff |-> 10, fetching_context |-> 15, logic_agent |-> 25,
     security_agent |-> 40, quality_agent |-> 55, critique_agent |-> 70,
     deduplicating |-> 80, formatting |-> 90, posting |-> 95, complete |-> 100]

\* lines 57-91: a stage that is not in PROGRESS_STAGES is not broadcast
broadcast_progress(stage) ==
    broadcasts' = IF stage \in DOMAIN PROGRESS_STAGES
                  THEN Append(broadcasts, stage) ELSE broadcasts

\* a call of process_review to a collaborator, whether it returns or raises
Calls(name) ==
    effects' = Append(effects, name)

\* lines 178-191: job fields, get_db, the repositories, GitHubService(),
\* ReviewSupervisor(); all of it before the try block
Construct ==
    /\ pc = "construct"
    /\ \E outcome \in {"ok", "raise"} :
          IF outcome = "ok"
          THEN /\ pc' = "update_processing"
               /\ UNCHANGED <<propagated, failedAt>>
          ELSE /\ pc' = "returned"
               /\ propagated' = TRUE
               /\ failedAt' = "construct"
    /\ UNCHANGED <<libVars, stepVars, reviewStatus, reviewCommentId, statusWrites, failedWriteOk,
                   repo_settings, broadcasts, rateVars, orchVars, outVars>>

\* step 1, line 195
UpdateProcessing ==
    /\ pc = "update_processing"
    /\ \E outcome \in {"ok", "raise"} :
          IF outcome = "ok"
          THEN /\ update_status("processing")
               /\ pc' = "fetch_settings"
               /\ UNCHANGED failedAt
          ELSE /\ Raise("update_processing")
               /\ UNCHANGED <<reviewStatus, statusWrites>>
    /\ UNCHANGED <<libVars, stepVars, propagated, reviewCommentId, failedWriteOk, repo_settings,
                   broadcasts, rateVars, orchVars, outVars>>

\* variant of ReviewsDisabled: the run is skipped only when every pass is
\* disabled as well
ReviewsDisabledAllOff(rs) ==
    rs # NoSettings /\ ~rs.enabled /\ \A p \in Passes : ~rs.agents_enabled[p]

\* line 205: repo_settings and not repo_settings.enabled
ReviewsDisabled(rs) == rs # NoSettings /\ ~rs.enabled

\* step 1b, lines 199-202: repo_settings is None when the review or its
\* settings row is missing
FetchSettings ==
    /\ pc = "fetch_settings"
    /\ \/ \E rs \in Settings \cup {NoSettings} :
             /\ repo_settings' = rs
             /\ pc' = IF ReviewsDisabled(rs)
                      THEN "skip_disabled" ELSE "fetch_diff"
             /\ UNCHANGED failedAt
       \/ /\ Raise("fetch_settings")
          /\ UNCHANGED repo_settings
    /\ UNCHANGED <<libVars, stepVars, propagated, reviewStatus, reviewCommentId, statusWrites,
                   failedWriteOk, broadcasts, rateVars, orchVars, outVars>>

\* step 1c, lines 205-209
SkipDisabled ==
    /\ pc = "skip_disabled"
    /\ Calls("update_status_completed")
    /\ \E outcome \in {"ok", "update_raises", "broadcast_raises"} :
          CASE outcome = "update_raises" ->
                 /\ Raise("update_completed")
                 /\ UNCHANGED <<reviewStatus, statusWrites, broadcasts>>
            [] outcome = "broadcast_raises" ->
                 /\ update_status("completed")
                 /\ broadcast_progress("complete")
                 /\ Raise("broadcast")
            [] outcome = "ok" ->
                 /\ update_status("completed")
                 /\ broadcast_progress("complete")
                 /\ pc' = "returned"
                 /\ UNCHANGED failedAt
    /\ UNCHANGED <<libVars, diff, diff_content, propagated, reviewCommentId, failedWriteOk,
                   repo_settings, rateVars, orchVars, outVars>>

\* step 2, lines 212-214
FetchDiff ==
    /\ pc = "fetch_diff"
    /\ broadcast_progress("fetching_diff")
    /\ \E outcome \in {"ok", "broadcast_raises", "raise"} :
          CASE outcome = "broadcast_raises" ->
                 /\ Raise("broadcast")
                 /\ UNCHANGED <<effects, diff>>
            [] outcome = "raise" ->
                 /\ Calls("get_pr_diff")
                 /\ Raise("fetch_diff")
                 /\ UNCHANGED diff
            [] outcome = "ok" ->
                 /\ Calls("get_pr_diff")
                 /\ diff' = PrDiff
                 /\ pc' = "update_diff"
                 /\ UNCHANGED failedAt
    /\ UNCHANGED <<libVars, diff_content, propagated, reviewStatus, reviewCommentId, statusWrites,
                   failedWriteOk, repo_settings, rateVars, orchVars, outVars>>

\* step 2b, line 217
UpdateDiff ==
    /\ pc = "update_diff"
    /\ Calls("update_diff")
    /\ \E outcome \in {"ok", "raise"} :
          IF outcome = "ok"
          THEN /\ diff_content' = diff
               /\ pc' = "fetch_ignore"
               /\ UNCHANGED failedAt
          ELSE /\ Raise("update_diff")
               /\ UNCHANGED diff_content
    /\ UNCHANGED <<libVars, diff, propagated, reviewStatus, reviewCommentId, statusWrites,
                   failedWriteOk, repo_settings, broadcasts, rateVars, orchVars,
                   outVars>>

\* steps 3 and 3a, lines 220-237: get_file_content of .codeguardignore
\* returns the content, or None for a 404 and for an HTTP status error; any
\* other error of the host (connection, timeout) raises.  Then filter_diff.
FetchIgnore ==
    /\ pc = "fetch_ignore"
    /\ \E outcome \in {"content", "not_found", "http_status_error", "other_error"} :
          CASE outcome = "other_error" ->
                 /\ effects' = effects \o <<"get_file_content">>
                 /\ Raise("fetch_ignore")
                 /\ UNCHANGED diff
            [] outcome = "content" ->
                 /\ \E user_patterns \in UserPatterns :
                        diff' = filter_diff(diff, user_patterns).filtered_diff
                 /\ effects' = effects \o <<"get_file_content", "filter_diff">>
                 /\ pc' = "fetch_context"
                 /\ UNCHANGED failedAt
            [] OTHER ->
                 /\ diff' = filter_diff(diff, <<>>).filtered_diff
                 /\ effects' = effects \o <<"get_file_content", "filter_diff">>
                 /\ pc' = "fetch_context"
                 /\ UNCHANGED failedAt
    /\ UNCHANGED <<libVars, diff_content, propagated, reviewStatus, reviewCommentId, statusWrites,
                   failedWriteOk, repo_settings, broadcasts, rateVars, orchVars,
                   outVars>>

\* step 3b, lines 240-247: _fetch_file_contents catches every exception
FetchContext ==
    /\ pc = "fetch_context"
    /\ broadcast_progress("fetching_context")
    /\ \E outcome \in {"ok", "broadcast_raises"} :
          IF outcome = "ok"
          THEN /\ Calls("_fetch_file_contents")
               /\ pc' = "rate_init"
               /\ UNCHANGED failedAt
          ELSE /\ Raise("broadcast")
               /\ UNCHANGED effects
    /\ UNCHANGED <<libVars, diff, diff_content, propagated, reviewStatus, reviewCommentId, statusWrites,
                   failedWriteOk, repo_settings, rateVars, orchVars, outVars>>

\* step 4, lines 250-253: get_redis_client raises without its configuration
RateInit ==
    /\ pc = "rate_init"
    /\ \E outcome \in {"ok", "raise"} :
          IF outcome = "ok"
          THEN pc' = "rate_check" /\ UNCHANGED failedAt
          ELSE Raise("rate_init")
    /\ Calls("rate_limit")
    /\ attempt' = 0
    /\ UNCHANGED <<libVars, diff, diff_content, propagated, reviewStatus, reviewCommentId, statusWrites,
                   failedWriteOk, repo_settings, broadcasts, rateKey, cpCalls,
                   sleeps, incrCalls, orchVars, outVars>>

\* variant of ShouldSleep: the delay is also skipped after the attempt before
\* the last
ShouldSleepEarlyStop(a) == a < max_retries - 2

\* line 258: the delay is skipped after the last attempt
ShouldSleep(a) == a < max_retries - 1

\* for attempt in range(max_retries): the next iteration, or the else clause
\* of the loop (line 265) when the range is exhausted
NextAttempt ==
    IF attempt + 1 < max_retries
    THEN /\ attempt' = attempt + 1
         /\ pc' = "rate_check"
         /\ UNCHANGED failedAt
    ELSE /\ Raise("rate_limit")
         /\ UNCHANGED attempt

\* lines 255-262, one iteration up to the sleep: can_proceed, break on True;
\* on False sleep unless this was the last attempt
RateCheck ==
    /\ pc = "rate_check"
    /\ \/ /\ cpCalls' = Append(cpCalls, can_proceed(rateKey))
          /\ IF can_proceed(rateKey)
             THEN pc' = "build_supervisor" /\ UNCHANGED <<failedAt, attempt>>
             ELSE IF ShouldSleep(attempt)
             THEN pc' = "sleep" /\ UNCHANGED <<failedAt, attempt>>
             ELSE NextAttempt
       \/ /\ Raise("can_proceed")
          /\ UNCHANGED <<cpCalls, attempt>>
    /\ UNCHANGED <<libVars, stepVars, propagated, reviewStatus, reviewCommentId, statusWrites,
                   failedWriteOk, repo_settings, broadcasts, rateKey, sleeps,
                   incrCalls, orchVars, outVars>>

\* line 263: time.sleep, then the next iteration
Sleep ==
    /\ pc = "sleep"
    /\ sleeps' = sleeps + 1
    /\ NextAttempt
    /\ UNCHANGED <<libVars, stepVars, propagated, reviewStatus, reviewCommentId, statusWrites,
                   failedWriteOk, repo_settings, broadcasts, rateKey, cpCalls,
                   incrCalls, orchVars, outVars>>

----------------------------------------------------------------------------
(* supervisor.py: ReviewSupervisor and the review graph *)

None == "None"

\* processor.py lines 279-281: an agent object for an enabled pass, None for
\* a disabled one
DriverAgent(rs, p) ==
    IF rs = NoSettings \/ rs.agents_enabled[p] THEN "configured" ELSE None

\* ReviewSupervisor.__init__, lines 186-192: an argument that is None is
\* replaced by a default agent
SupervisorAgent(arg) ==
    IF arg # None THEN arg ELSE "default"

\* run_logic, run_security, run_quality: the node calls analyze unless its
\* agent is None
NodeCallsAnalyze(agent) == agent # None

\* variant of JoinReady: critique starts as soon as one node returned
JoinReadyFirstWins(ps) == \E p \in Passes : ps[p] = "done"

\* variant of JoinReady: critique starts once every node ended, raised or not
JoinReadyDegraded(ps) == \A p \in Passes : ps[p] \in {"done", "raised"}

\* edges logic -> critique, security -> critique, quality -> critique: the
\* three nodes run in one step of the graph and critique in the next, once
\* all of them returned
JoinReady(ps) == \A p \in Passes : ps[p] = "done"

\* an exception of a node is not caught by the graph
NodeFailed(ps) == \E p \in Passes : ps[p] = "raised"

\* variant of ApplyUpdate: the node writes back the whole state it was given,
\* the initial state of the graph, with its own keys changed
ApplyUpdateWholeState(state, update) ==
    [k \in DOMAIN state |->
        IF k \in DOMAIN update THEN update[k] ELSE <<>>]

\* ReviewState declares its keys without reducers: the dictionary a node
\* returns replaces the values of its keys and leaves the other keys alone
ApplyUpdate(state, update) ==
    [k \in DOMAIN state |->
        IF k \in DOMAIN update THEN update[k] ELSE state[k]]

\* the dictionary run_logic / run_security / run_quality returns
NodeUpdate(p, findings) == p :> findings

\* variant of CritiqueUpdate: the quality list of the response is dropped
CritiqueUpdateNoQuality(result) ==
    [logic |-> result["logic"], security |-> result["security"]]

\* the dictionary run_critique returns, lines 98-103
CritiqueUpdate(result) ==
    [logic |-> result["logic"], security |-> result["security"],
     quality |-> result["quality"]]

\* step 5, lines 267-291: build the supervisor, then supervisor.run
\* (initial_state of run: empty buckets, empty final_comment)
RunSupervisor ==
    /\ pc = "build_supervisor"
    /\ supAgents' = [p \in Passes |-> SupervisorAgent(DriverAgent(repo_settings, p))]
    /\ broadcast_progress("logic_agent")
    /\ \E outcome \in {"ok", "broadcast_raises"} :
          IF outcome = "ok"
          THEN /\ pc' = "supervisor_run"
               /\ Calls("supervisor_run")
               /\ orchCalls' = orchCalls + 1
               /\ orchState' = "passes"
               /\ passState' = [p \in Passes |-> "running"]
               /\ UNCHANGED failedAt
          ELSE /\ Raise("broadcast")
               /\ UNCHANGED <<effects, orchCalls, orchState, passState>>
    /\ UNCHANGED <<libVars, diff, diff_content, propagated, reviewStatus, reviewCommentId, statusWrites,
                   failedWriteOk, repo_settings, rateVars, buckets, final_comment,
                   analyzeCalls, critiqueCalls, renderCalls, critique_result,
                   outVars>>

\* the bound on the findings of a run, for the list pass p returns
Room(p) == MaxPassFindings - SumLen(buckets, Passes \ {p})

\* run_logic / run_security / run_quality for pass p
RunNode(p) ==
    /\ pc = "supervisor_run"
    /\ orchState = "passes"
    /\ passState[p] = "running"
    /\ IF NodeCallsAnalyze(supAgents[p])
       THEN /\ analyzeCalls' = [analyzeCalls EXCEPT ![p] = @ + 1]
            /\ \/ \E findings \in BSeq(PassFinding, Room(p)) :
                     /\ buckets' = ApplyUpdate(buckets, NodeUpdate(p, findings))
                     /\ passState' = [passState EXCEPT ![p] = "done"]
               \/ /\ passState' = [passState EXCEPT ![p] = "raised"]
                  /\ UNCHANGED buckets
       ELSE /\ buckets' = ApplyUpdate(buckets, NodeUpdate(p, <<>>))
            /\ passState' = [passState EXCEPT ![p] = "done"]
            /\ UNCHANGED analyzeCalls
    /\ UNCHANGED <<libVars, stepVars, driverVars, rateVars, supAgents, orchState, orchCalls,
                   final_comment, critiqueCalls, renderCalls, critique_result,
                   outVars>>

\* the exception of a node leaves graph.invoke
GraphRaise ==
    /\ pc = "supervisor_run"
    /\ orchState = "passes"
    /\ NodeFailed(passState)
    /\ orchState' = "raised"
    /\ UNCHANGED <<libVars, stepVars, driverVars, rateVars, supAgents, orchCalls, passState,
                   buckets, final_comment, analyzeCalls, critiqueCalls,
                   renderCalls, critique_result, outVars>>

\* run_critique, lines 85-103: the three buckets are replaced by the lists of
\* the critique response
RunCritique ==
    /\ pc = "supervisor_run"
    /\ orchState = "passes"
    /\ JoinReady(passState)
    /\ critiqueCalls' = critiqueCalls + 1
    /\ \/ \E l \in BSeq(AgentFinding, MaxFindings) :
          \E s \in BSeq(AgentFinding, MaxFindings - Len(l)) :
          \E q \in BSeq(AgentFinding, MaxFindings - Len(l) - Len(s)) :
             /\ critique_result' = [logic |-> l, security |-> s, quality |-> q]
             /\ buckets' = ApplyUpdate(buckets, CritiqueUpdate(critique_result'))
             /\ orchState' = "combine"
       \/ /\ orchState' = "raised"
          /\ UNCHANGED <<buckets, critique_result>>
    /\ UNCHANGED <<libVars, stepVars, driverVars, rateVars, supAgents, orchCalls, passState,
                   final_comment, analyzeCalls, renderCalls, outVars>>

\* combine_findings, lines 105-119
CombineFindings ==
    /\ pc = "supervisor_run"
    /\ orchState = "combine"
    /\ renderCalls' = renderCalls + 1
    /\ final_comment' = Format(buckets["logic"], buckets["security"],
                               buckets["quality"])
    /\ orchState' = "done"
    /\ UNCHANGED <<libVars, stepVars, driverVars, rateVars, supAgents, orchCalls, passState,
                   buckets, analyzeCalls, critiqueCalls, critique_result, outVars>>

----------------------------------------------------------------------------
(* processor.py: process_review, after supervisor.run *)

\* line 291 returns the final state; line 292
SupervisorReturn ==
    /\ pc = "supervisor_run"
    /\ orchState = "done"
    /\ orchState' = "returned"
    /\ broadcast_progress("critique_agent")
    /\ \E outcome \in {"ok", "broadcast_raises"} :
          IF outcome = "ok"
          THEN pc' = "increment" /\ UNCHANGED failedAt
          ELSE Raise("broadcast")
    /\ UNCHANGED <<libVars, stepVars, propagated, reviewStatus, reviewCommentId, statusWrites,
                   failedWriteOk, repo_settings, rateVars, supAgents, orchCalls,
                   passState, buckets, final_comment, analyzeCalls,
                   critiqueCalls, renderCalls, critique_result, outVars>>

\* line 291 raises: the exception of graph.invoke reaches the handler
SupervisorRaise ==
    /\ pc = "supervisor_run"
    /\ orchState = "raised"
    /\ orchState' = "returned"
    /\ Raise("supervisor_run")
    /\ UNCHANGED <<libVars, stepVars, propagated, reviewStatus, reviewCommentId, statusWrites,
                   failedWriteOk, repo_settings, broadcasts, rateVars, supAgents,
                   orchCalls, passState, buckets, final_comment, analyzeCalls,
                   critiqueCalls, renderCalls, critique_result, outVars>>

\* line 295: rate_limiter.increment
Increment ==
    /\ pc = "increment"
    /\ incrCalls' = incrCalls + 1
    /\ \E outcome \in {"ok", "raise"} :
          IF outcome = "ok"
          THEN /\ rateKey' = increment(rateKey)
               /\ pc' = "collect"
               /\ UNCHANGED failedAt
          ELSE /\ Raise("increment")
               /\ UNCHANGED rateKey
    /\ UNCHANGED <<libVars, stepVars, propagated, reviewStatus, reviewCommentId, statusWrites,
                   failedWriteOk, repo_settings, broadcasts, attempt, cpCalls,
                   sleeps, orchVars, outVars>>

\* step 6, lines 298-323
Collect ==
    /\ pc = "collect"
    /\ broadcast_progress("formatting")
    /\ \E outcome \in {"ok", "broadcast_raises"} :
          IF outcome = "ok"
          THEN /\ all_findings' = CollectFindings(buckets, repo_settings)
               /\ pc' = "create_many"
               /\ UNCHANGED failedAt
          ELSE /\ Raise("broadcast")
               /\ UNCHANGED all_findings
    /\ UNCHANGED <<libVars, stepVars, propagated, reviewStatus, reviewCommentId, statusWrites,
                   failedWriteOk, repo_settings, rateVars, orchVars, persisted,
                   createCalls, posted, postCalls, comment_id>>

\* step 7, lines 326-328: create_many stores the whole list or raises
SaveFindings ==
    /\ pc = "create_many"
    /\ IF all_findings # <<>>
       THEN /\ createCalls' = createCalls + 1
            /\ Calls("create_many")
            /\ \E outcome \in {"ok", "raise"} :
                  IF outcome = "ok"
                  THEN /\ persisted' = all_findings
                       /\ pc' = "post_comment"
                       /\ UNCHANGED failedAt
                  ELSE /\ Raise("create_many")
                       /\ UNCHANGED persisted
       ELSE /\ pc' = "post_comment"
            /\ UNCHANGED <<failedAt, createCalls, persisted, effects>>
    /\ UNCHANGED <<libVars, diff, diff_content, propagated, reviewStatus, reviewCommentId, statusWrites,
                   failedWriteOk, repo_settings, broadcasts, rateVars, orchVars,
                   all_findings, posted, postCalls, comment_id>>

\* step 8, lines 331-340: the comment is result["final_comment"]
PostComment ==
    /\ pc = "post_comment"
    /\ broadcast_progress("posting")
    /\ \E outcome \in {"ok", "broadcast_raises", "raise"} :
          CASE outcome = "broadcast_raises" ->
                 /\ Raise("broadcast")
                 /\ UNCHANGED <<posted, postCalls, comment_id, effects>>
            [] outcome = "raise" ->
                 /\ final_comment # EmptyComment
                 /\ postCalls' = postCalls + 1
                 /\ Calls("post_comment")
                 /\ Raise("post_comment")
                 /\ UNCHANGED <<posted, comment_id>>
            [] outcome = "ok" ->
                 /\ IF final_comment # EmptyComment
                    THEN /\ postCalls' = postCalls + 1
                         /\ Calls("post_comment")
                         /\ posted' = final_comment
                         /\ comment_id' = CommentId
                    ELSE /\ comment_id' = NullId
                         /\ UNCHANGED <<posted, postCalls, effects>>
                 /\ pc' = "update_completed"
                 /\ UNCHANGED failedAt
    /\ UNCHANGED <<libVars, diff, diff_content, propagated, reviewStatus, reviewCommentId, statusWrites,
                   failedWriteOk, repo_settings, rateVars, orchVars, all_findings,
                   persisted, createCalls>>

\* step 9, lines 343-347: the status write, then the last broadcast, both
\* inside the try block
UpdateCompleted ==
    /\ pc = "update_completed"
    /\ Calls("update_status_completed")
    /\ \E outcome \in {"ok", "update_raises", "broadcast_raises"} :
          CASE outcome = "update_raises" ->
                 /\ Raise("update_completed")
                 /\ UNCHANGED <<reviewStatus, statusWrites, reviewCommentId,
                                broadcasts>>
            [] outcome = "broadcast_raises" ->
                 /\ update_status("completed")
                 /\ reviewCommentId' = comment_id
                 /\ broadcast_progress("complete")
                 /\ Raise("broadcast")
            [] outcome = "ok" ->
                 /\ update_status("completed")
                 /\ reviewCommentId' = comment_id
                 /\ broadcast_progress("complete")
                 /\ pc' = "returned"
                 /\ UNCHANGED failedAt
    /\ UNCHANGED <<libVars, diff, diff_content, propagated, failedWriteOk, repo_settings,
                   rateVars, orchVars, outVars>>

\* lines 349-360: the handler writes FAILED; an exception of that write is
\* logged and not raised again
Handler ==
    /\ pc = "handler"
    /\ \E outcome \in {"ok", "raise"} :
          IF outcome = "ok"
          THEN update_status("failed") /\ failedWriteOk' = TRUE
          ELSE UNCHANGED <<reviewStatus, statusWrites, failedWriteOk>>
    /\ pc' = "returned"
    /\ UNCHANGED <<libVars, stepVars, propagated, failedAt, reviewCommentId, repo_settings,
                   broadcasts, rateVars, orchVars, outVars>>

----------------------------------------------------------------------------
(* The rate counter is shared with the other runs and has a time to live: *)
(* while this run is in its rate-limit loop the other runs may fill the   *)
(* window (queue.py increment, lines 46-54) and the key may expire.       *)

InRateLoop == pc \in {"rate_check", "sleep"}

OtherRunsFill ==
    /\ InRateLoop
    /\ rateKey # <<max_requests>>
    /\ rateKey' = <<max_requests>>
    /\ UNCHANGED <<libVars, stepVars, driverVars, attempt, cpCalls, sleeps, incrCalls, orchVars,
                   outVars>>

KeyExpires ==
    /\ InRateLoop
    /\ rateKey # NoKey
    /\ rateKey' = NoKey
    /\ UNCHANGED <<libVars, stepVars, driverVars, attempt, cpCalls, sleeps, incrCalls, orchVars,
                   outVars>>

----------------------------------------------------------------------------
(* services/llm.py: LLMService.invoke_structured                           *)
(* A response of the model is modelled by the class of its content; the    *)
(* steps of the function are applied to it in the order of the code.       *)

\* largest max_retries argument of a call
MaxRetriesArg == 3

\* line 91: max_retries: int = 2
default_max_retries == 2

Schemas == {"AgentResponse", "CritiqueResponse"}

\* response.content: None or "", whitespace only, a code fence around
\* nothing, text that is not JSON, a JSON object that conforms to the schema
\* (bare or inside a code fence), a JSON object that does not conform, a JSON
\* array of findings
Contents ==
    {"none", "blank", "fenced_blank", "garbage", "object", "fenced_object",
     "object_invalid", "findings_list"}

\* exceptions of self.llm.invoke: a ValueError, or any other exception
\* (connection, timeout, quota)
InvokeErrors == {"ValueError", "TransportError"}

\* line 133: not content or not content.strip()
IsEmptyResponse(content) == content \in {"none", "blank"}

\* lines 137-150: the inside of a code fence when there is one, stripped
ExtractJson(content) ==
    CASE content = "fenced_blank" -> "none"
      [] content = "fenced_object" -> "object"
      [] OTHER -> content

\* lines 157-160: a list is wrapped when the schema has a findings field
WrapList(data, schema) ==
    IF data = "findings_list" /\ schema = "AgentResponse" THEN "object" ELSE data

\* line 162: output_schema.model_validate
Validates(data) == data = "object"

Failure(error) == [ok |-> FALSE, error |-> error]

\* lines 121-162, the body of the try for one response
ParseResponse(content, schema) ==
    IF IsEmptyResponse(content)
    THEN Failure("ValueError: LLM returned empty response")
    ELSE LET json == ExtractJson(content)
         IN IF json = "none"
            THEN Failure("ValueError: LLM returned empty JSON content")
            ELSE IF json = "garbage"
            THEN Failure("JSONDecodeError")
            ELSE IF Validates(WrapList(json, schema))
            THEN [ok |-> TRUE, error |-> "none"]
            ELSE Failure("ValidationError")

\* line 164: except (json.JSONDecodeError, ValueError); pydantic's
\* ValidationError is a ValueError
Caught(error) == error # "TransportError"

\* variant of ShouldRetry: the delay and the retry also follow the last attempt
ShouldRetryAlways(a, max_retries_arg) == a <= max_retries_arg

\* line 166: attempt < max_retries
ShouldRetry(a, max_retries_arg) == a < max_retries_arg

LlmIdle ==
    /\ llm_pc = "idle"
    /\ llm_schema = "AgentResponse"
    /\ llm_max_retries = default_max_retries
    /\ llm_attempt = 0
    /\ llm_log = <<>>
    /\ llm_sleeps = 0
    /\ llm_out = [kind |-> "none"]

\* the exception of attempt a: caught and retried, or raised to the caller
LlmFails(error) ==
    /\ IF Caught(error) /\ ShouldRetry(llm_attempt, llm_max_retries)
       THEN /\ llm_pc' = "sleep"
            /\ UNCHANGED llm_out
       ELSE /\ llm_pc' = "raised"
            /\ llm_out' = [kind |-> "error", error |-> error,
                           attempt |-> llm_attempt]

\* lines 117-170: one iteration of the loop up to the sleep
LlmCall ==
    /\ llm_pc = "call"
    /\ \/ \E content \in Contents :
             /\ llm_log' = Append(llm_log, [kind |-> "response", content |-> content])
             /\ LET r == ParseResponse(content, llm_schema)
                IN IF r.ok
                   THEN /\ llm_pc' = "returned"
                        /\ llm_out' = [kind |-> "record", schema |-> llm_schema,
                                       attempt |-> llm_attempt]
                   ELSE LlmFails(r.error)
       \/ \E error \in InvokeErrors :
             /\ llm_log' = Append(llm_log, [kind |-> "raise", error |-> error])
             /\ LlmFails(error)
    /\ UNCHANGED <<llmRest, llm_schema, llm_max_retries, llm_attempt,
                   llm_sleeps>>

\* lines 167-169: time.sleep(1), continue
LlmSleep ==
    /\ llm_pc = "sleep"
    /\ llm_sleeps' = llm_sleeps + 1
    /\ llm_attempt' = llm_attempt + 1
    /\ llm_pc' = "call"
    /\ UNCHANGED <<llmRest, llm_schema, llm_max_retries, llm_log,
                   llm_out>>

\* a call of invoke_structured by BaseAgent.analyze (AgentResponse) or by
\* CritiqueAgent.critique (CritiqueResponse)
LlmInit ==
    /\ llm_pc = "call"
    /\ llm_schema \in Schemas
    /\ llm_max_retries \in 0..MaxRetriesArg
    /\ llm_attempt = 0
    /\ llm_log = <<>>
    /\ llm_sleeps = 0
    /\ llm_out = [kind |-> "none"]

LlmNext == LlmCall \/ LlmSleep

----------------------------------------------------------------------------
(* processor.py: _fetch_file_contents                                      *)
(* The text of a file is modelled by its number of lines, the bytes of a   *)
(* line and whether it ends with a newline; the paths of files are 1..n.   *)

\* largest number of paths in the file list
MaxContextFiles == 6

\* number of runs that contend for the rate counter
MaxRuns == 3

\* largest number of lines of a diff
MaxDiffLines == 3

\* largest number of findings passed to CommentFormatter.format, over the
\* three lists together
MaxFormatFindings == 3

\* largest number of paths given to detect_language
MaxLangFiles == 3

\* largest number of characters of a response text
MaxPayloadLen == 4

\* largest number of findings of a response, and of the three lists together
MaxRawFindings == 1
MaxCallers == 2
MaxCap == 2
MaxCounter == 2
MaxWindow == 2
MaxRequests == 2

MAX_CONTEXT_FILES == 5
MAX_LINES_PER_FILE == 500
MAX_TOTAL_CONTEXT_BYTES == 50000

\* the texts get_file_content may return
FileTexts ==
    {[lines |-> 1, line_bytes |-> 1, eol |-> FALSE],
     [lines |-> 500, line_bytes |-> 99, eol |-> FALSE],
     [lines |-> 500, line_bytes |-> 99, eol |-> TRUE],
     [lines |-> 501, line_bytes |-> 1, eol |-> FALSE],
     [lines |-> 501, line_bytes |-> 99, eol |-> FALSE]}

\* get_file_content: the text, None (not found, HTTP status error), or an
\* exception
FetchOutcomes ==
    {[kind |-> "none"], [kind |-> "raise"]}
        \cup {[kind |-> "text", text |-> t] : t \in FileTexts}

RECURSIVE Digits(_)
Digits(n) == IF n < 10 THEN 1 ELSE 1 + Digits(n \div 10)

\* line 430: "\n\n... (truncated, {n} more lines)"
MarkerBytes(n) == 30 + Digits(n)

\* variant of ShouldTruncate: a file one line over the cap is kept whole
ShouldTruncateLate(text) == text.lines > MAX_LINES_PER_FILE + 1

\* line 428: len(lines) > MAX_LINES_PER_FILE
ShouldTruncate(text) == text.lines > MAX_LINES_PER_FILE

\* lines 427-430: the content kept for a text; more is the number of lines
\* the marker reports, 0 when there is no marker
Capped(text) ==
    IF ShouldTruncate(text)
    THEN [lines |-> MAX_LINES_PER_FILE, line_bytes |-> text.line_bytes,
          eol |-> FALSE, more |-> text.lines - MAX_LINES_PER_FILE]
    ELSE [lines |-> text.lines, line_bytes |-> text.line_bytes,
          eol |-> text.eol, more |-> 0]

\* line 433: len(content.encode("utf-8"))
ContentBytes(content) ==
    content.lines * content.line_bytes + (content.lines - 1)
        + (IF content.eol THEN 1 ELSE 0)
        + (IF content.more > 0 THEN MarkerBytes(content.more) ELSE 0)

\* files[:MAX_CONTEXT_FILES]
FilesToFetch(n) == IF n < MAX_CONTEXT_FILES THEN n ELSE MAX_CONTEXT_FILES

CtxIdle ==
    /\ ctx_pc = "idle"
    /\ ctx_files = 0
    /\ ctx_i = 1
    /\ ctx_fetched = <<>>
    /\ file_contents = <<>>
    /\ total_bytes = 0
    /\ ctx_result = <<"pending">>

CtxInit ==
    /\ ctx_pc = "loop"
    /\ ctx_files \in 0..MaxContextFiles
    /\ ctx_i = 1
    /\ ctx_fetched = <<>>
    /\ file_contents = <<>>
    /\ total_bytes = 0
    /\ ctx_result = <<"pending">>

\* lines 420-446: one iteration of the loop
CtxFetch ==
    /\ ctx_pc = "loop"
    /\ ctx_i <= FilesToFetch(ctx_files)
    /\ \E outcome \in FetchOutcomes :
          /\ ctx_fetched' = Append(ctx_fetched, [path |-> ctx_i, outcome |-> outcome])
          /\ IF outcome.kind \in {"none", "raise"}
             THEN /\ ctx_i' = ctx_i + 1
                  /\ UNCHANGED <<ctx_pc, file_contents, total_bytes>>
             ELSE LET content == Capped(outcome.text)
                      content_bytes == ContentBytes(content)
                  IN IF total_bytes + content_bytes > MAX_TOTAL_CONTEXT_BYTES
                     THEN /\ ctx_pc' = "return"
                          /\ UNCHANGED <<ctx_i, file_contents, total_bytes>>
                     ELSE /\ file_contents' =
                                 Append(file_contents,
                                        [path |-> ctx_i, content |-> content])
                          /\ total_bytes' = total_bytes + content_bytes
                          /\ ctx_i' = ctx_i + 1
                          /\ UNCHANGED ctx_pc
    /\ UNCHANGED <<ctxRest, ctx_files, ctx_result>>

\* the loop is exhausted
CtxLoopEnd ==
    /\ ctx_pc = "loop"
    /\ ctx_i > FilesToFetch(ctx_files)
    /\ ctx_pc' = "return"
    /\ UNCHANGED <<ctxRest, ctx_files, ctx_i, ctx_fetched, file_contents,
                   total_bytes, ctx_result>>

\* line 448: return file_contents if file_contents else None
CtxReturn ==
    /\ ctx_pc = "return"
    /\ ctx_result' = IF file_contents # <<>> THEN file_contents ELSE <<"None">>
    /\ ctx_pc' = "returned"
    /\ UNCHANGED <<ctxRest, ctx_files, ctx_i, ctx_fetched, file_contents,
                   total_bytes>>

CtxNext == CtxFetch \/ CtxLoopEnd \/ CtxReturn

----------------------------------------------------------------------------

(* ConnectionManager of services/websocket.py and the /ws/reviews endpoint of
   main.py, for the listeners of one review_id.  process_review is a plain
   function handed to BackgroundTasks, so it runs on a worker thread and its
   broadcast runs while the server's event loop serves the endpoints: an
   endpoint may register or remove its websocket between any two steps of
   broadcast. *)

WebSockets == {"w1", "w2", "w3"}

NoWebSocket == "none"

Registered(conns) == {conns[k] : k \in 1..Len(conns)}

\* list.remove(websocket), guarded by `websocket in list`
\* (websocket.py:42-43)
disconnect(conns, websocket) == SelectSeq(conns, LAMBDA w : w # websocket)

\* variant of KeyKept: the key stays with its empty list
KeyKeptAlways(conns) == TRUE

\* disconnect, lines 44-45: the key is deleted when its list is empty
KeyKept(conns) == conns # <<>>

RECURSIVE DisconnectAll(_, _)
\* the cleanup loop of broadcast (websocket.py:65-66)
DisconnectAll(conns, gone) ==
    IF gone = <<>> THEN conns
    ELSE DisconnectAll(disconnect(conns, Head(gone)), Tail(gone))

WsIdle ==
    /\ active_connections = <<>>
    /\ ws_life = [w \in WebSockets |-> "new"]
    /\ ws_pc = "idle"
    /\ ws_i = 0
    /\ ws_cur = NoWebSocket
    /\ ws_detached = FALSE
    /\ disconnected = <<>>
    /\ ws_got = {}
    /\ ws_start = {}
    /\ ws_left = {}
    /\ ws_keyed = FALSE

\* ConnectionManager.connect, called by the endpoint (main.py:86)
WsConnect ==
    \E w \in WebSockets :
        /\ ws_life[w] = "new"
        /\ ws_life' = [ws_life EXCEPT ![w] = "open"]
        /\ active_connections' = Append(active_connections, w)
        /\ ws_keyed' = TRUE
        /\ UNCHANGED <<wsRest, ws_pc, ws_i, ws_cur, ws_detached,
                       disconnected, ws_got, ws_start, ws_left>>

\* the endpoint's `finally: ws_manager.disconnect(review_id, websocket)`
\* (main.py:95-96): the client went away
WsEndpointDisconnect ==
    \E w \in WebSockets :
        /\ ws_life[w] = "open"
        /\ ws_life' = [ws_life EXCEPT ![w] = "closed"]
        /\ active_connections' = disconnect(active_connections, w)
        /\ ws_keyed' = (ws_keyed /\ KeyKept(active_connections'))
        /\ ws_left' = IF w \in ws_start THEN ws_left \cup {w} ELSE ws_left
        \* the key is deleted: a later connect makes a new list, the loop keeps
        \* the old, now empty, one
        /\ ws_detached' = (ws_detached
                           \/ (/\ ws_pc \in {"loop", "send"}
                               /\ active_connections # <<>>
                               /\ active_connections' = <<>>))
        /\ UNCHANGED <<wsRest, ws_pc, ws_i, ws_cur, disconnected,
                       ws_got, ws_start>>

\* broadcast, lines 54-57: the membership test and disconnected = []
BroadcastCall ==
    /\ ws_pc \in {"idle", "done"}
    /\ ws_pc' = IF ~ws_keyed THEN "done" ELSE "checked"
    /\ ws_i' = 0
    /\ ws_cur' = NoWebSocket
    /\ ws_detached' = FALSE
    /\ disconnected' = <<>>
    /\ ws_got' = {}
    /\ ws_start' = Registered(active_connections)
    /\ ws_left' = {}
    /\ UNCHANGED <<wsRest, active_connections, ws_life, ws_keyed>>

\* broadcast, line 58: self.active_connections[review_id] is looked up again;
\* KeyError when the key was deleted since the test of line 54
BroadcastIter ==
    /\ ws_pc = "checked"
    /\ ws_pc' = IF ~ws_keyed THEN "raised" ELSE "loop"
    /\ UNCHANGED <<wsRest, active_connections, ws_life, ws_i, ws_cur,
                   ws_detached, disconnected, ws_got, ws_start, ws_left,
                   ws_keyed>>

\* broadcast, line 58: the list iterator yields the element at its index, or
\* the loop ends when the index is past the end of the list
BroadcastNextItem ==
    /\ ws_pc = "loop"
    /\ IF ~ws_detached /\ ws_i < Len(active_connections)
       THEN /\ ws_cur' = active_connections[ws_i + 1]
            /\ ws_i' = ws_i + 1
            /\ ws_pc' = "send"
       ELSE /\ ws_cur' = NoWebSocket
            /\ ws_pc' = "cleanup"
            /\ UNCHANGED ws_i
    /\ UNCHANGED <<wsRest, active_connections, ws_life, ws_detached,
                   disconnected, ws_got, ws_start, ws_left, ws_keyed>>

\* broadcast, lines 59-62: await websocket.send_json(data) returns or raises
BroadcastSend ==
    /\ ws_pc = "send"
    /\ \E sent \in BOOLEAN :
        IF sent
        THEN /\ ws_got' = ws_got \cup {ws_cur}
             /\ UNCHANGED disconnected
        ELSE /\ disconnected' = Append(disconnected, ws_cur)
             /\ UNCHANGED ws_got
    /\ ws_pc' = "loop"
    /\ UNCHANGED <<wsRest, active_connections, ws_life, ws_i,
                   ws_cur, ws_detached, ws_start, ws_left, ws_keyed>>

\* broadcast, lines 65-66
BroadcastCleanup ==
    /\ ws_pc = "cleanup"
    /\ active_connections' = DisconnectAll(active_connections, disconnected)
    /\ ws_keyed' = IF disconnected = <<>> THEN ws_keyed
                   ELSE ws_keyed /\ KeyKept(active_connections')
    /\ ws_pc' = "done"
    /\ UNCHANGED <<wsRest, ws_life, ws_i, ws_cur, ws_detached,
                   disconnected, ws_got, ws_start, ws_left>>

WsNext ==
    \/ WsConnect
    \/ WsEndpointDisconnect
    \/ BroadcastCall
    \/ BroadcastIter
    \/ BroadcastNextItem
    \/ BroadcastSend
    \/ BroadcastCleanup

----------------------------------------------------------------------------

(* The rate gate of process_review (processor.py:249-265, 291-295) for
   several runs that share the key rate_limit:gemini (queue.py:36-54).  A
   window is the time between two expiries of the key.  Each run is the
   rate-limit loop, supervisor.run and rate_limiter.increment of one
   process_review call; a run that raises between the gate and the increment
   never increments. *)

Runs == 1..MaxRuns

InFlight(r) == rl_pc[r] \in {"check", "sleep", "admitted", "increment"}

RlIdle ==
    /\ rl_key = NoKey
    /\ rl_pc = [r \in Runs |-> "idle"]
    /\ rl_attempt = [r \in Runs |-> 0]
    /\ rl_passes = 0
    /\ rl_serial = FALSE

\* the key holds the count of the runs that passed the gate and incremented
\* it earlier in the window
RlInit ==
    /\ rl_key \in {NoKey} \cup {<<c>> : c \in 1..max_requests}
    /\ rl_pc = [r \in Runs |-> "idle"]
    /\ rl_attempt = [r \in Runs |-> 0]
    /\ rl_passes = IF rl_key = NoKey THEN 0 ELSE rl_key[1]
    /\ rl_serial \in BOOLEAN

\* process_review reaches line 255; when the runs are executed one after
\* another no other run is between its line 255 and its line 295
RlStart(r) ==
    /\ rl_pc[r] = "idle"
    /\ rl_serial => \A q \in Runs : ~InFlight(q)
    /\ rl_pc' = [rl_pc EXCEPT ![r] = "check"]
    /\ rl_attempt' = [rl_attempt EXCEPT ![r] = 0]
    /\ UNCHANGED <<rlRest, rl_key, rl_passes, rl_serial>>

\* the next iteration of `for attempt in range(max_retries)`, or the else
\* clause of the loop (line 265)
RlNextAttempt(r) ==
    IF rl_attempt[r] + 1 < max_retries
    THEN /\ rl_attempt' = [rl_attempt EXCEPT ![r] = @ + 1]
         /\ rl_pc' = [rl_pc EXCEPT ![r] = "check"]
    ELSE /\ rl_pc' = [rl_pc EXCEPT ![r] = "failed"]
         /\ UNCHANGED rl_attempt

\* lines 256-263
RlCheck(r) ==
    /\ rl_pc[r] = "check"
    /\ IF can_proceed(rl_key)
       THEN /\ rl_pc' = [rl_pc EXCEPT ![r] = "admitted"]
            /\ rl_passes' = rl_passes + 1
            /\ UNCHANGED rl_attempt
       ELSE /\ IF ShouldSleep(rl_attempt[r])
               THEN rl_pc' = [rl_pc EXCEPT ![r] = "sleep"] /\ UNCHANGED rl_attempt
               ELSE RlNextAttempt(r)
            /\ UNCHANGED rl_passes
    /\ UNCHANGED <<rlRest, rl_key, rl_serial>>

\* line 263: time.sleep(retry_delay)
RlSleep(r) ==
    /\ rl_pc[r] = "sleep"
    /\ RlNextAttempt(r)
    /\ UNCHANGED <<rlRest, rl_key, rl_passes, rl_serial>>

\* lines 267-292: supervisor.run returns or raises
RlSupervisor(r) ==
    /\ rl_pc[r] = "admitted"
    /\ \E outcome \in {"ok", "raise"} :
          rl_pc' = [rl_pc EXCEPT ![r] = IF outcome = "ok" THEN "increment"
                                        ELSE "failed"]
    /\ UNCHANGED <<rlRest, rl_key, rl_attempt, rl_passes, rl_serial>>

\* line 295: rate_limiter.increment("gemini")
RlIncrement(r) ==
    /\ rl_pc[r] = "increment"
    /\ rl_key' = increment(rl_key)
    /\ rl_pc' = [rl_pc EXCEPT ![r] = "done"]
    /\ UNCHANGED <<rlRest, rl_attempt, rl_passes, rl_serial>>

\* queue.py:51-52: the key expires window_seconds after the increment that
\* created it; a new window starts
RlKeyExpires ==
    /\ rl_key # NoKey
    /\ rl_key' = NoKey
    /\ rl_passes' = 0
    /\ UNCHANGED <<rlRest, rl_pc, rl_attempt, rl_serial>>

RlNext ==
    \/ \E r \in Runs : RlStart(r)
    \/ \E r \in Runs : RlCheck(r)
    \/ \E r \in Runs : RlSleep(r)
    \/ \E r \in Runs : RlSupervisor(r)
    \/ \E r \in Runs : RlIncrement(r)
    \/ RlKeyExpires

----------------------------------------------------------------------------

(* Steps 3, 3a and 3b of process_review (processor.py:219-247) and the call
   of the Orchestrator (line 291), for every diff of at most MaxDiffLines
   lines and every content of the ignore file. *)

DiffPaths ==
    {app_py, docs_md, yarn_lock, gemfile_lock, api_generated_ts, lib_b_yarn_lock}

\* the lines of a diff: the header of a file, the header of a rename, a line
\* that starts with "diff --git " and lacks the second path token, a line of
\* a hunk, a blank line
DiffLines ==
    {HeaderLine(path, path) : path \in DiffPaths}
    \cup {HeaderLine(app_py, yarn_lock),
          GitLine(<<"a", "/">> \o app_py),
          TextLine, BlankLine}

RECURSIVE SeqsUpTo(_, _)
\* the sequences of at most n elements of S
SeqsUpTo(S, n) ==
    IF n = 0 THEN {<<>>}
    ELSE LET shorter == SeqsUpTo(S, n - 1)
         IN shorter \cup {Append(q, x) : q \in shorter, x \in S}

Diffs == SeqsUpTo(DiffLines, MaxDiffLines)

\* get_file_content gave None
NoIgnoreFile == [found |-> FALSE, lines |-> <<>>]

\* get_file_content gave the text of the file
IgnoreFile(lines) == [found |-> TRUE, lines |-> lines]

\* what get_file_content gives for .codeguardignore
IgnoreContents ==
    {NoIgnoreFile,
     IgnoreFile(<<>>),
     IgnoreFile(<<IgnoreLine("comment", <<>>), IgnoreLine("blank", <<>>)>>),
     IgnoreFile(<<IgnoreLine("pattern", docs_md)>>),
     IgnoreFile(<<IgnoreLine("blank", <<>>),
                  IgnoreLine("pattern", <<"*", ".", "py">>),
                  IgnoreLine("comment", <<>>)>>),
     IgnoreFile(<<IgnoreLine("pattern", <<"vendor", "/", "*">>),
                  IgnoreLine("pattern", yarn_lock)>>)}

NotRun == [diff |-> NoDiff, files |-> <<>>]

\* what happens to one file in the loop of _fetch_file_contents: its content
\* is stored; get_file_content gave None or raised; or the content would take
\* the total over MAX_TOTAL_CONTEXT_BYTES
FileOutcomes == {"content", "none", "over"}

\* the sequences of n elements of S
SeqsOfLen(S, n) == {q \in SeqsUpTo(S, n) : Len(q) = n}

RECURSIVE FetchLoop(_, _)
\* the loop of _fetch_file_contents (processor.py:420-446) over the files
\* it is given: the paths passed to get_file_content and the keys of
\* file_contents
FetchLoop(files, outcomes) ==
    IF files = <<>> THEN [requested |-> <<>>, keys |-> {}]
    ELSE IF Head(outcomes) = "over"
    THEN [requested |-> <<Head(files)>>, keys |-> {}]
    ELSE LET rest == FetchLoop(Tail(files), Tail(outcomes))
         IN [requested |-> <<Head(files)>> \o rest.requested,
             keys |-> IF Head(outcomes) = "content"
                      THEN {Head(files)} \cup rest.keys ELSE rest.keys]

\* _fetch_file_contents (processor.py:395-448)
fetch_file_contents(files, outcomes) ==
    FetchLoop(SubSeq(files, 1, FilesToFetch(Len(files))), outcomes)

DpIdle ==
    /\ dp_pc = "idle"
    /\ dp_raw = NoDiff
    /\ dp_diff = NoDiff
    /\ dp_files = <<>>
    /\ dp_ignored = <<>>
    /\ dp_patterns = <<>>
    /\ dp_run = NotRun
    /\ dp_fetched = <<>>
    /\ dp_context = {}

\* lines 211-214: diff = github_service.get_pr_diff(...)
DpInit ==
    /\ dp_pc = "extract"
    /\ dp_raw \in Diffs
    /\ dp_diff = dp_raw
    /\ dp_files = <<>>
    /\ dp_ignored = <<>>
    /\ dp_patterns = <<>>
    /\ dp_run = NotRun
    /\ dp_fetched = <<>>
    /\ dp_context = {}

\* line 220
DpExtract ==
    /\ dp_pc = "extract"
    /\ dp_files' = extract_files_from_diff(dp_diff)
    /\ dp_pc' = "filter"
    /\ UNCHANGED <<dpRest, dp_raw, dp_diff, dp_ignored, dp_patterns, dp_run,
                   dp_fetched, dp_context>>

\* lines 227-232
DpFilter ==
    /\ dp_pc = "filter"
    /\ \E ignore_content \in IgnoreContents :
          \* parse_ignore_file(ignore_content) if ignore_content else []
          LET user_patterns == IF ignore_content.found /\ ignore_content.lines # <<>>
                               THEN parse_ignore_file(ignore_content.lines)
                               ELSE <<>>
              result == filter_diff(dp_diff, user_patterns)
          IN /\ dp_patterns' = user_patterns
             /\ dp_diff' = result.filtered_diff
             /\ dp_files' = result.kept_files
             /\ dp_ignored' = result.ignored_files
    /\ dp_pc' = "context"
    /\ UNCHANGED <<dpRest, dp_raw, dp_run, dp_fetched, dp_context>>

\* variant of DpContext: the contents are fetched for every file of the diff
\* as it came from the host
DpContextAllFiles ==
    /\ dp_pc = "context"
    /\ LET all == extract_files_from_diff(dp_raw)
       IN \E outcomes \in SeqsOfLen(FileOutcomes, Len(all)) :
              LET result == fetch_file_contents(all, outcomes)
              IN /\ dp_fetched' = result.requested
                 /\ dp_context' = result.keys
    /\ dp_pc' = "run"
    /\ UNCHANGED <<dpRest, dp_raw, dp_diff, dp_files, dp_ignored, dp_patterns,
                   dp_run>>

\* lines 240-243: file_contents = _fetch_file_contents(..., files, ...)
DpContext ==
    /\ dp_pc = "context"
    /\ \E outcomes \in SeqsOfLen(FileOutcomes, Len(dp_files)) :
          LET result == fetch_file_contents(dp_files, outcomes)
          IN /\ dp_fetched' = result.requested
             /\ dp_context' = result.keys
    /\ dp_pc' = "run"
    /\ UNCHANGED <<dpRest, dp_raw, dp_diff, dp_files, dp_ignored, dp_patterns,
                   dp_run>>

\* line 291: supervisor.run(diff, files, file_contents)
DpRun ==
    /\ dp_pc = "run"
    /\ dp_run' = [diff |-> dp_diff, files |-> dp_files]
    /\ dp_pc' = "done"
    /\ UNCHANGED <<dpRest, dp_raw, dp_diff, dp_files, dp_ignored, dp_patterns,
                   dp_fetched, dp_context>>

DpNext == DpExtract \/ DpFilter \/ DpContext \/ DpRun

----------------------------------------------------------------------------

(* One call of CommentFormatter.format, for every three lists of at most
   MaxFormatFindings findings together. *)

FormatTitles == {"t", "u"}

FormatFinding == [severity : AgentSeverities, title : FormatTitles]

FmtIdle ==
    /\ fmt_pc = "idle"
    /\ fmt_in = EmptyBuckets
    /\ fmt_out = <<>>

FmtInit ==
    /\ fmt_pc = "call"
    /\ \E l \in BSeq(FormatFinding, MaxFormatFindings) :
       \E s \in BSeq(FormatFinding, MaxFormatFindings - Len(l)) :
       \E q \in BSeq(FormatFinding, MaxFormatFindings - Len(l) - Len(s)) :
          fmt_in = [logic |-> l, security |-> s, quality |-> q]
    /\ fmt_out = <<>>

FmtFormat ==
    /\ fmt_pc = "call"
    /\ fmt_out' = FormatLines(fmt_in["logic"], fmt_in["security"], fmt_in["quality"])
    /\ fmt_pc' = "returned"
    /\ UNCHANGED <<fmtRest, fmt_in>>

FmtNext == FmtFormat

----------------------------------------------------------------------------

(* prompts.py: detect_language and get_prompts_for_language; processor.py
   step 5, which builds the three agents from the templates selected *)

\* _EXTENSION_MAP, lines 316-337, by the extension after its dot
EXTENSION_MAP ==
    [py |-> "python", pyi |-> "python", js |-> "javascript",
     jsx |-> "javascript", ts |-> "typescript", tsx |-> "typescript",
     mjs |-> "javascript", cjs |-> "javascript", go |-> "go", rs |-> "rust",
     java |-> "java", kt |-> "kotlin", rb |-> "ruby", php |-> "php",
     cs |-> "csharp", cpp |-> "cpp", c |-> "c", h |-> "c", hpp |-> "cpp",
     swift |-> "swift"]

\* str.lower on one token of a path
Lower(tok) ==
    CASE tok = "PY" -> "py"
      [] tok = "JS" -> "js"
      [] tok = "APP" -> "app"
      [] OTHER -> tok

\* f.rfind("."): the index of the last dot of the path, 0 for -1
RFindDot(f) ==
    LET dots == {i \in 1..Len(f) : f[i] = "."}
    IN IF dots = {} THEN 0 ELSE CHOOSE i \in dots : \A j \in dots : j <= i

\* lines 363-368: the language of one path, NoLanguage when the path has no
\* dot or _EXTENSION_MAP has no entry for the lowered text from its last dot
NoLanguage == "None"

LanguageOfFile(f) ==
    LET dot_idx == RFindDot(f)
        ext == [i \in 1..(Len(f) - dot_idx + 1) |-> Lower(f[dot_idx + i - 1])]
    IN IF dot_idx = 0 THEN NoLanguage
       ELSE IF Len(ext) = 2 /\ ext[2] \in DOMAIN EXTENSION_MAP
            THEN EXTENSION_MAP[ext[2]]
            ELSE NoLanguage

\* lang_counts[lang] += 1 on a Counter, kept as its entries in insertion order
CounterAdd(lang_counts, lang) ==
    IF \E i \in 1..Len(lang_counts) : lang_counts[i].lang = lang
    THEN [i \in 1..Len(lang_counts) |->
            IF lang_counts[i].lang = lang
            THEN [lang_counts[i] EXCEPT !.count = @ + 1]
            ELSE lang_counts[i]]
    ELSE Append(lang_counts, [lang |-> lang, count |-> 1])

\* lines 361-370: the loop over files
RECURSIVE CountLanguages(_, _)
CountLanguages(files, lang_counts) ==
    IF files = <<>> THEN lang_counts
    ELSE LET lang == LanguageOfFile(Head(files))
         IN CountLanguages(Tail(files),
                           IF lang # NoLanguage
                           THEN CounterAdd(lang_counts, lang)
                           ELSE lang_counts)

\* Counter.most_common(1)[0][0]: the entry of the largest count, the first
\* inserted among equal counts
MostCommon(lang_counts) ==
    LET best == CHOOSE i \in 1..Len(lang_counts) :
                   \A j \in 1..Len(lang_counts) :
                      \/ lang_counts[j].count < lang_counts[i].count
                      \/ lang_counts[j].count = lang_counts[i].count /\ i <= j
    IN lang_counts[best].lang

\* detect_language, lines 349-375
detect_language(files) ==
    LET lang_counts == CountLanguages(files, <<>>)
    IN IF lang_counts = <<>> THEN "generic" ELSE MostCommon(lang_counts)

\* a template, by the family of its text and the pass it is written for
Template(family, p) == [family |-> family, pass |-> p]

\* _LANGUAGE_PROMPTS, lines 340-344, and _GENERIC_PROMPTS, line 346
GENERIC_PROMPTS == [p \in Passes |-> Template("generic", p)]

LANGUAGE_PROMPTS ==
    [python |-> [p \in Passes |-> Template("python", p)],
     javascript |-> [p \in Passes |-> Template("javascript", p)],
     typescript |-> [p \in Passes |-> Template("javascript", p)]]

\* get_prompts_for_language, lines 378-387
get_prompts_for_language(language) ==
    IF language \in DOMAIN LANGUAGE_PROMPTS
    THEN LANGUAGE_PROMPTS[language]
    ELSE GENERIC_PROMPTS

\* LOGIC_AGENT_PROMPT, SECURITY_AGENT_PROMPT, QUALITY_AGENT_PROMPT, lines
\* 257-259: the template of an agent built without one
DefaultPrompt(p) == Template("python", p)

\* processor.py lines 279-281 and ReviewSupervisor.__init__ lines 186-192:
\* the template of the agent the supervisor holds for pass p
AgentTemplate(rs, prompts, p) ==
    IF DriverAgent(rs, p) # None THEN prompts[p] ELSE DefaultPrompt(p)

\* the paths of a review
main_js == <<"main", ".", "js">>
util_ts == <<"util", ".", "ts">>
main_go == <<"main", ".", "go">>
APP_PY == <<"APP", ".", "PY">>
makefile == <<"Makefile">>
v1_py_readme == <<"v1", ".", "py", "/", "README">>

LangPaths ==
    {app_py, main_js, util_ts, main_go, APP_PY, makefile, v1_py_readme, docs_md}

LangSettings ==
    {NoSettings} \cup
    {rs \in Settings : rs.enabled /\ rs.severity_threshold = "info"}

NoPrompts == [p \in Passes |-> None]

LgIdle ==
    /\ lg_pc = "idle"
    /\ lg_files = <<>>
    /\ lg_settings = NoSettings
    /\ lg_lang = NoLanguage
    /\ lg_prompts = NoPrompts
    /\ lg_agents = NoPrompts

\* a review that has passed the rate gate, for every file list and settings
LgInit ==
    /\ lg_pc = "detect"
    /\ lg_files \in BSeq(LangPaths, MaxLangFiles)
    /\ lg_settings \in LangSettings
    /\ lg_lang = NoLanguage
    /\ lg_prompts = NoPrompts
    /\ lg_agents = NoPrompts

\* line 274
LgDetect ==
    /\ lg_pc = "detect"
    /\ lg_lang' = detect_language(lg_files)
    /\ lg_pc' = "select"
    /\ UNCHANGED <<lgRest, lg_files, lg_settings, lg_prompts, lg_agents>>

\* line 275
LgSelect ==
    /\ lg_pc = "select"
    /\ lg_prompts' = get_prompts_for_language(lg_lang)
    /\ lg_pc' = "build"
    /\ UNCHANGED <<lgRest, lg_files, lg_settings, lg_lang, lg_agents>>

\* lines 279-287
LgBuild ==
    /\ lg_pc = "build"
    /\ lg_agents' = [p \in Passes |-> AgentTemplate(lg_settings, lg_prompts, p)]
    /\ lg_pc' = "built"
    /\ UNCHANGED <<lgRest, lg_files, lg_settings, lg_lang, lg_prompts>>

LgNext == LgDetect \/ LgSelect \/ LgBuild

----------------------------------------------------------------------------

(* llm.py: LLMService._fix_json_escapes, and json.loads on what it returns.
   The text is the inside of one string of the response, as the sequence of
   its characters. *)

BS == "\\"
APOS == "'"
NL == "newline"

\* the characters of the class ["\\/bfnrtu] of the pattern, line 71
ValidEscapeChars == {"\"", BS, "/", "b", "f", "n", "r", "t", "u"}

\* line 71: the pattern matches at i, a backslash that no backslash precedes
\* and that a character outside the class follows
PatternMatches(content, i) ==
    /\ content[i] = BS
    /\ (i = 1 \/ content[i - 1] # BS)
    /\ i < Len(content)
    /\ content[i + 1] \notin ValidEscapeChars

\* line 72: re.sub(pattern, fix_escape, content) from position i on; a match
\* is replaced by two backslashes and its character (fix_escape, lines 61-65)
RECURSIVE SubFrom(_, _)
SubFrom(content, i) ==
    IF i > Len(content) THEN <<>>
    ELSE IF PatternMatches(content, i)
         THEN <<BS, BS, content[i + 1]>> \o SubFrom(content, i + 2)
         ELSE <<content[i]>> \o SubFrom(content, i + 1)

\* line 75: content.replace("\\'", "'") from position i on
RECURSIVE ReplaceFrom(_, _)
ReplaceFrom(content, i) ==
    IF i > Len(content) THEN <<>>
    ELSE IF content[i] = BS /\ i < Len(content) /\ content[i + 1] = APOS
         THEN <<APOS>> \o ReplaceFrom(content, i + 2)
         ELSE <<content[i]>> \o ReplaceFrom(content, i + 1)

\* _fix_json_escapes, lines 39-77
fix_json_escapes(content) == ReplaceFrom(SubFrom(content, 1), 1)

\* the character an escape of the wire format stands for
Unescaped(c) ==
    CASE c = "n" -> NL
      [] OTHER -> c

\* what json.loads gives: the characters of the string, or JSONDecodeError
Parsed(chars) == [ok |-> TRUE, chars |-> chars]

JsonError == [ok |-> FALSE, chars |-> <<>>]

\* json.loads, line 153, on a string with this inside: the characters it
\* holds, or the error for a backslash that starts no escape of the format
RECURSIVE JsonChars(_, _)
JsonChars(content, i) ==
    IF i > Len(content) THEN Parsed(<<>>)
    ELSE IF content[i] # BS
         THEN LET rest == JsonChars(content, i + 1)
              IN IF rest.ok THEN Parsed(<<content[i]>> \o rest.chars)
                 ELSE JsonError
         ELSE IF i = Len(content) \/ content[i + 1] \notin ValidEscapeChars
              THEN JsonError
              ELSE LET rest == JsonChars(content, i + 2)
                   IN IF rest.ok
                      THEN Parsed(<<Unescaped(content[i + 1])>> \o rest.chars)
                      ELSE JsonError

json_loads(content) == JsonChars(content, 1)

\* the characters of the texts
EscChars == {BS, "s", "n", APOS}

NotParsed == [ok |-> FALSE, chars |-> <<"None">>]

EscIdle ==
    /\ esc_pc = "idle"
    /\ esc_in = <<>>
    /\ esc_out = <<>>
    /\ esc_parsed = NotParsed
    /\ esc_twice = <<>>

\* a response text, for every text of at most MaxPayloadLen characters
EscInit ==
    /\ esc_pc = "call"
    /\ esc_in \in BSeq(EscChars, MaxPayloadLen)
    /\ esc_out = <<>>
    /\ esc_parsed = NotParsed
    /\ esc_twice = <<>>

\* invoke_structured, line 143
EscFix ==
    /\ esc_pc = "call"
    /\ esc_out' = fix_json_escapes(esc_in)
    /\ esc_pc' = "fixed"
    /\ UNCHANGED <<escRest, esc_in, esc_parsed, esc_twice>>

\* invoke_structured, line 153
EscParse ==
    /\ esc_pc = "fixed"
    /\ esc_parsed' = json_loads(esc_out)
    /\ esc_pc' = "parsed"
    /\ UNCHANGED <<escRest, esc_in, esc_out, esc_twice>>

\* the repair applied to its own result
EscFixAgain ==
    /\ esc_pc = "parsed"
    /\ esc_twice' = fix_json_escapes(esc_out)
    /\ esc_pc' = "again"
    /\ UNCHANGED <<escRest, esc_in, esc_out, esc_parsed>>

EscNext == EscFix \/ EscParse \/ EscFixAgain

----------------------------------------------------------------------------

(* schemas.py: AgentFinding, AgentResponse, CritiqueResponse as
   invoke_structured validates them (llm.py line 162), and the lists of the
   ReviewState that the nodes of the graph fill with what was validated. A
   finding is modelled by its severity and its confidence. *)

\* a field the response does not carry
Omitted == "omitted"

\* schemas.py lines 12 and 15: the values of the two Literal types
SeverityLiteral == {"critical", "warning", "info"}
ConfidenceLiteral == {"high", "medium", "low"}

\* the values a response can carry for the two fields
RawSeverities == SeverityLiteral \cup {"high"}
RawConfidences == ConfidenceLiteral \cup {"certain", Omitted}

\* the findings of the responses: every value of each field, beside a valid
\* value of the other field, and the finding with both values invalid
RawFinding ==
    {raw \in [severity : RawSeverities, confidence : RawConfidences] :
        \/ raw.severity = "critical"
        \/ raw.confidence = "high"
        \/ raw.severity = "high" /\ raw.confidence = "certain"}

\* the variant of FindingValidates that checks the severity only
FindingValidatesSeverityOnly(raw) ==
    raw.severity \in SeverityLiteral

\* AgentFinding, lines 12-18: severity is required and of its Literal type,
\* confidence is of its Literal type when the response carries it
FindingValidates(raw) ==
    /\ raw.severity \in SeverityLiteral
    /\ raw.confidence = Omitted \/ raw.confidence \in ConfidenceLiteral

\* AgentFinding, lines 15-17: the finding built from valid data, confidence
\* with its default
ValidatedFinding(raw) ==
    [severity |-> raw.severity,
     confidence |-> IF raw.confidence = Omitted THEN "medium"
                    ELSE raw.confidence]

\* List[AgentFinding], lines 33 and 43-54: every element validates
FindingsValidate(raws) ==
    \A i \in 1..Len(raws) : FindingValidates(raws[i])

ValidatedFindings(raws) ==
    [i \in 1..Len(raws) |-> ValidatedFinding(raws[i])]

\* output_schema.model_validate(data), llm.py line 162, for the lists of
\* findings of the data: the record, or ValidationError
model_validate(data) ==
    IF \A p \in Passes : FindingsValidate(data[p])
    THEN [ok |-> TRUE, findings |-> [p \in Passes |-> ValidatedFindings(data[p])]]
    ELSE [ok |-> FALSE, findings |-> EmptyBuckets]

NoResponse ==
    [schema |-> "None", data |-> EmptyBuckets, state |-> "none",
     record |-> EmptyBuckets]

\* the data of an AgentResponse for pass p
AgentData(p, raws) == [q \in Passes |-> IF q = p THEN raws ELSE <<>>]

Pending(schema, data) ==
    [schema |-> schema, data |-> data, state |-> "pending",
     record |-> EmptyBuckets]

SchIdle ==
    /\ sch_pc = "idle"
    /\ sch_pass = [p \in Passes |-> "idle"]
    /\ sch_resp = NoResponse
    /\ sch_buckets = EmptyBuckets

\* ReviewSupervisor.run, initial_state: the three lists empty
SchInit ==
    /\ sch_pc = "passes"
    /\ sch_pass = [p \in Passes |-> "running"]
    /\ sch_resp = NoResponse
    /\ sch_buckets = EmptyBuckets

\* the bound on the findings of a run, for the list pass p returns
SchRoom(p) == MaxRawFindings - SumLen(sch_buckets, Passes \ {p})

\* analyze of pass p, base.py lines 57-59: the model answers the prompt
SchRespond(p) ==
    /\ sch_pc = "passes"
    /\ sch_pass[p] = "running"
    /\ sch_resp = NoResponse
    /\ \E raws \in BSeq(RawFinding, SchRoom(p)) :
          sch_resp' = Pending(p, AgentData(p, raws))
    /\ UNCHANGED <<schRest, sch_pc, sch_pass, sch_buckets>>

\* critique, critique.py line 55: the model answers the prompt
SchRespondCritique ==
    /\ sch_pc = "critique"
    /\ sch_resp = NoResponse
    /\ \E l \in BSeq(RawFinding, MaxRawFindings) :
       \E s \in BSeq(RawFinding, MaxRawFindings - Len(l)) :
       \E q \in BSeq(RawFinding, MaxRawFindings - Len(l) - Len(s)) :
          sch_resp' = Pending("critique",
                              [logic |-> l, security |-> s, quality |-> q])
    /\ UNCHANGED <<schRest, sch_pc, sch_pass, sch_buckets>>

\* invoke_structured line 162: the record of the schema, or ValidationError
SchValidate ==
    /\ sch_resp.state = "pending"
    /\ LET r == model_validate(sch_resp.data)
       IN sch_resp' = [sch_resp EXCEPT
                          !.state = IF r.ok THEN "accepted" ELSE "rejected",
                          !.record = r.findings]
    /\ UNCHANGED <<schRest, sch_pc, sch_pass, sch_buckets>>

\* analyze returns response.findings and the node of pass p its dictionary,
\* supervisor.py lines 37-83
SchNode(p) ==
    /\ sch_pc = "passes"
    /\ sch_resp.state = "accepted"
    /\ sch_resp.schema = p
    /\ sch_buckets' = ApplyUpdate(sch_buckets, NodeUpdate(p, sch_resp.record[p]))
    /\ sch_pass' = [sch_pass EXCEPT ![p] = "done"]
    /\ sch_resp' = NoResponse
    /\ UNCHANGED <<schRest, sch_pc>>

\* invoke_structured lines 164-170 for pass p: ValidationError is a
\* ValueError; the call is made again or, without a retry left, the error
\* leaves the node
SchRejected(p) ==
    /\ sch_pc = "passes"
    /\ sch_resp.state = "rejected"
    /\ sch_resp.schema = p
    /\ \E retry \in BOOLEAN :
          sch_pass' = [sch_pass EXCEPT ![p] = IF retry THEN "running" ELSE "raised"]
    /\ sch_resp' = NoResponse
    /\ UNCHANGED <<schRest, sch_pc, sch_buckets>>

\* the three nodes have returned: the critique node runs; an error of a
\* node ends the run
SchJoin ==
    /\ sch_pc = "passes"
    /\ sch_resp = NoResponse
    /\ \A p \in Passes : sch_pass[p] # "running"
    /\ sch_pc' = IF \A p \in Passes : sch_pass[p] = "done"
                 THEN "critique" ELSE "raised"
    /\ UNCHANGED <<schRest, sch_pass, sch_resp, sch_buckets>>

\* run_critique, supervisor.py lines 93-102
SchCritiqueNode ==
    /\ sch_pc = "critique"
    /\ sch_resp.state = "accepted"
    /\ sch_buckets' = ApplyUpdate(sch_buckets, CritiqueUpdate(sch_resp.record))
    /\ sch_pc' = "done"
    /\ sch_resp' = NoResponse
    /\ UNCHANGED <<schRest, sch_pass>>

\* invoke_structured lines 164-170 for the critique
SchCritiqueRejected ==
    /\ sch_pc = "critique"
    /\ sch_resp.state = "rejected"
    /\ \E retry \in BOOLEAN :
          sch_pc' = IF retry THEN "critique" ELSE "raised"
    /\ sch_resp' = NoResponse
    /\ UNCHANGED <<schRest, sch_pass, sch_buckets>>

SchNext ==
    \/ \E p \in Passes : SchRespond(p)
    \/ SchValidate
    \/ \E p \in Passes : SchNode(p)
    \/ \E p \in Passes : SchRejected(p)
    \/ SchJoin
    \/ SchRespondCritique
    \/ SchCritiqueNode
    \/ SchCritiqueRejected

----------------------------------------------------------------------------

(* RateLimiter of services/queue.py on one Redis key, for callers of
   increment that run concurrently: redis.incr and redis.expire are two
   requests to the Redis host, and other callers' requests and the passing of
   time fall between them. *)

\* the key does not exist: redis.get gives None.  ttl is the number of
\* seconds the key has left, 0 for a key without expiry
NoCounter == [exists |-> FALSE, count |-> 0, ttl |-> 0]

Counter(count, ttl) == [exists |-> TRUE, count |-> count, ttl |-> ttl]

HasExpiry(key) == key.exists /\ key.ttl > 0

\* the callers of increment, one call each
Callers == 1..MaxCallers

\* max_requests of the instances: the value every construction in the
\* repository passes, and small values around zero
Caps == (-1..MaxCap) \cup {max_requests}

\* the values of the counter: small ones and the ones around max_requests
CounterValues ==
    (1..MaxCounter) \cup {max_requests - 1, max_requests, max_requests + 1}

\* variant of limiter_can_proceed: the comparison is strict
limiter_can_proceed_strict(self, current) ==
    ~(current.exists /\ current.count > self.max_requests)

\* can_proceed (queue.py:36-44) for an instance and the value redis.get gave
limiter_can_proceed(self, current) ==
    ~(current.exists /\ current.count >= self.max_requests)

Max(a, b) == IF a >= b THEN a ELSE b

\* get_remaining (queue.py:56-64)
get_remaining(self, current) ==
    IF ~current.exists THEN self.max_requests
    ELSE Max(0, self.max_requests - current.count)

\* redis.incr: the key is created at 1 without expiry, or 1 is added and the
\* expiry kept
redis_incr(key) ==
    IF key.exists THEN Counter(key.count + 1, key.ttl) ELSE Counter(1, 0)

\* redis.expire(rate_key, seconds): no effect on a key that does not exist
redis_expire(key, seconds) ==
    IF key.exists THEN Counter(key.count, seconds) ELSE key

\* variant of ShouldExpire: every increment sets the expiry
ShouldExpireAlways(count) == count >= 1

\* queue.py:51: if count == 1
ShouldExpire(count) == count = 1

\* no query since the key last changed
NoQuery == [asked |-> FALSE, remaining |-> 0, proceed |-> FALSE]

LmIdle ==
    /\ lm_self = [max_requests |-> max_requests, window_seconds |-> 1]
    /\ lm_key = NoCounter
    /\ lm_pc = [r \in Callers |-> "idle"]
    /\ lm_count = [r \in Callers |-> 0]
    /\ lm_expired = [r \in Callers |-> FALSE]
    /\ lm_failed = FALSE
    /\ lm_query = NoQuery

\* RateLimiter(redis, max_requests, window_seconds) on a key that does not
\* exist or that earlier calls left with a count and an expiry
LmInit ==
    /\ lm_self \in [max_requests : Caps, window_seconds : 1..MaxWindow]
    /\ lm_key \in {NoCounter}
                  \cup {Counter(c, t) : c \in CounterValues,
                                        t \in {lm_self.window_seconds}}
    /\ lm_pc = [r \in Callers |-> "idle"]
    /\ lm_count = [r \in Callers |-> 0]
    /\ lm_expired = [r \in Callers |-> FALSE]
    /\ lm_failed = FALSE
    /\ lm_query = NoQuery

\* increment, line 49: count = self.redis.incr(rate_key), or the request
\* raises
LmIncr(r) ==
    /\ lm_pc[r] = "idle"
    /\ \E outcome \in {"ok", "raise"} :
          IF outcome = "ok"
          THEN /\ lm_key' = redis_incr(lm_key)
               /\ lm_count' = [lm_count EXCEPT ![r] = lm_key'.count]
               /\ lm_pc' = [lm_pc EXCEPT ![r] = "incr"]
               /\ UNCHANGED lm_failed
          ELSE /\ lm_pc' = [lm_pc EXCEPT ![r] = "raised"]
               /\ lm_failed' = TRUE
               /\ UNCHANGED <<lm_key, lm_count>>
    /\ lm_expired' = [lm_expired EXCEPT ![r] = FALSE]
    /\ lm_query' = NoQuery
    /\ UNCHANGED <<lmRest, lm_self>>

\* increment, lines 51-52: self.redis.expire(rate_key, self.window_seconds),
\* or the request raises
LmExpire(r) ==
    /\ lm_pc[r] = "incr"
    /\ ShouldExpire(lm_count[r])
    /\ \E outcome \in {"ok", "raise"} :
          IF outcome = "ok"
          THEN /\ lm_key' = redis_expire(lm_key, lm_self.window_seconds)
               /\ lm_expired' = [lm_expired EXCEPT ![r] = TRUE]
               /\ lm_pc' = [lm_pc EXCEPT ![r] = "done"]
               /\ UNCHANGED lm_failed
          ELSE /\ lm_pc' = [lm_pc EXCEPT ![r] = "raised"]
               /\ lm_failed' = TRUE
               /\ UNCHANGED <<lm_key, lm_expired>>
    /\ lm_query' = NoQuery
    /\ UNCHANGED <<lmRest, lm_self, lm_count>>

\* increment, line 54: return count, when line 51 is false
LmReturn(r) ==
    /\ lm_pc[r] = "incr"
    /\ ~ShouldExpire(lm_count[r])
    /\ lm_pc' = [lm_pc EXCEPT ![r] = "done"]
    /\ UNCHANGED <<lmRest, lm_self, lm_key, lm_count, lm_expired, lm_failed,
                   lm_query>>

\* a second passes: a key with an expiry loses a second of it and is deleted
\* at the end of it
LmTick ==
    /\ HasExpiry(lm_key)
    /\ lm_key' = IF lm_key.ttl = 1 THEN NoCounter
                 ELSE Counter(lm_key.count, lm_key.ttl - 1)
    /\ lm_query' = NoQuery
    /\ UNCHANGED <<lmRest, lm_self, lm_pc, lm_count, lm_expired, lm_failed>>

\* get_remaining and can_proceed on the value redis.get gives
LmQuery ==
    /\ lm_query' = [asked |-> TRUE,
                    remaining |-> get_remaining(lm_self, lm_key),
                    proceed |-> limiter_can_proceed(lm_self, lm_key)]
    /\ UNCHANGED <<lmRest, lm_self, lm_key, lm_pc, lm_count, lm_expired,
                   lm_failed>>

LmNext ==
    \/ \E r \in Callers : LmIncr(r)
    \/ \E r \in Callers : LmExpire(r)
    \/ \E r \in Callers : LmReturn(r)
    \/ LmTick
    \/ LmQuery

----------------------------------------------------------------------------

(* api/webhooks.py: handle_github_webhook, for requests handled one after
   another.  A signature is the text of the X-Hub-Signature-256 header: a
   prefix and the HMAC of a body under a key. *)

\* hmac.new(secret, payload, sha256).hexdigest(): equal digests come from
\* equal keys and bodies
hmac_sha256(secret, payload) == [key |-> secret, msg |-> payload]

\* the bodies of the requests: a payload WebhookPayload accepts or rejects,
\* its action, and whether its repository.full_name has a "/"
Bodies ==
    [action : {"opened", "synchronize", "closed"}, valid : BOOLEAN,
     slash : BOOLEAN]

NoBody == [action |-> "", valid |-> FALSE, slash |-> FALSE]

\* the header is missing
NoSignature == [present |-> FALSE, prefix |-> "", key |-> "", msg |-> NoBody]

\* the header is the empty text
EmptySignature == [present |-> TRUE, prefix |-> "", key |-> "", msg |-> NoBody]

\* the header is prefix and the digest of msg under key
Signed(prefix, key, msg) ==
    [present |-> TRUE, prefix |-> prefix, key |-> key, msg |-> msg]

\* the secrets of the deployment; "" is the default of config.py
Secrets == {"", "s1"}

\* the keys a sender may sign with
SenderKeys == {"s1", "s2"}

Signatures ==
    {NoSignature, EmptySignature}
    \cup {Signed(prefix, key, msg) :
              prefix \in {"sha256=", "sha1="}, key \in SenderKeys,
              msg \in {b \in Bodies : b.valid /\ b.slash}}

Requests ==
    [event : {"pull_request", "issues"}, signature : Signatures, body : Bodies]

NoRequest == [event |-> "", signature |-> NoSignature, body |-> NoBody]

\* verify_signature (webhooks.py:66-86)
verify_signature(payload, signature, secret) ==
    /\ signature.prefix = "sha256="
    /\ hmac_sha256(signature.key, signature.msg) = hmac_sha256(secret, payload)

\* a header value that is not None and not ""
HeaderGiven(signature) == signature.present /\ signature.prefix # ""

WhIdle ==
    /\ wh_pc = "idle"
    /\ wh_secret = ""
    /\ wh_request = NoRequest
    /\ wh_repo_known = FALSE
    /\ wh_created = 0
    /\ wh_scheduled = 0
    /\ wh_reviews = 0
    /\ wh_jobs = 0
    /\ wh_handled = 0
    /\ wh_response = "none"

\* the deployment: its secret, and whether the repository is known
WhInit ==
    /\ wh_pc = "idle"
    /\ wh_secret \in Secrets
    /\ wh_request = NoRequest
    /\ wh_repo_known \in BOOLEAN
    /\ wh_created = 0
    /\ wh_scheduled = 0
    /\ wh_reviews = 0
    /\ wh_jobs = 0
    /\ wh_handled = 0
    /\ wh_response = "none"

\* the response of the handler, or the exception it raised
WhRespond(response) ==
    /\ wh_pc' = "responded"
    /\ wh_response' = response

\* a request arrives: line 115, body = await request.body()
WhReceive ==
    /\ wh_pc \in {"idle", "responded"}
    /\ wh_handled < MaxRequests
    /\ wh_request' \in Requests
    /\ wh_handled' = wh_handled + 1
    /\ wh_created' = 0
    /\ wh_scheduled' = 0
    /\ wh_response' = "none"
    /\ wh_pc' = "event"
    /\ UNCHANGED <<whRest, wh_secret, wh_repo_known, wh_reviews, wh_jobs>>

\* lines 118-119: ignore non-PR events
WhEvent ==
    /\ wh_pc = "event"
    /\ IF wh_request.event # "pull_request"
       THEN WhRespond("ignored")
       ELSE wh_pc' = "verify" /\ UNCHANGED wh_response
    /\ UNCHANGED <<whRest, wh_secret, wh_request, wh_repo_known, wh_created,
                   wh_scheduled, wh_reviews, wh_jobs, wh_handled>>

\* lines 122-124: the signature is verified when a secret is configured and
\* the header is given
WhVerify ==
    /\ wh_pc = "verify"
    /\ IF /\ wh_secret # "" /\ HeaderGiven(wh_request.signature)
          /\ ~verify_signature(wh_request.body, wh_request.signature, wh_secret)
       THEN WhRespond("401")
       ELSE wh_pc' = "parse" /\ UNCHANGED wh_response
    /\ UNCHANGED <<whRest, wh_secret, wh_request, wh_repo_known, wh_created,
                   wh_scheduled, wh_reviews, wh_jobs, wh_handled>>

\* lines 127-131: WebhookPayload.model_validate_json(body) raises for a body
\* it rejects; other actions than opened and synchronize are ignored
WhParse ==
    /\ wh_pc = "parse"
    /\ IF ~wh_request.body.valid THEN WhRespond("raised")
       ELSE IF wh_request.body.action \notin {"opened", "synchronize"}
       THEN WhRespond("ignored")
       ELSE wh_pc' = "repository" /\ UNCHANGED wh_response
    /\ UNCHANGED <<whRest, wh_secret, wh_request, wh_repo_known, wh_created,
                   wh_scheduled, wh_reviews, wh_jobs, wh_handled>>

\* lines 134-141: get or create the repository; either call may raise
WhRepository ==
    /\ wh_pc = "repository"
    /\ \E outcome \in {"ok", "raise"} :
          IF outcome = "ok"
          THEN /\ wh_repo_known' = TRUE
               /\ wh_pc' = "review"
               /\ UNCHANGED wh_response
          ELSE /\ WhRespond("raised")
               /\ UNCHANGED wh_repo_known
    /\ UNCHANGED <<whRest, wh_secret, wh_request, wh_created, wh_scheduled,
                   wh_reviews, wh_jobs, wh_handled>>

\* lines 144-151: review_repo.create stores the record or raises
WhReview ==
    /\ wh_pc = "review"
    /\ \E outcome \in {"ok", "raise"} :
          IF outcome = "ok"
          THEN /\ wh_created' = wh_created + 1
               /\ wh_reviews' = wh_reviews + 1
               /\ wh_pc' = "schedule"
               /\ UNCHANGED wh_response
          ELSE /\ WhRespond("raised")
               /\ UNCHANGED <<wh_created, wh_reviews>>
    /\ UNCHANGED <<whRest, wh_secret, wh_request, wh_repo_known, wh_scheduled,
                   wh_jobs, wh_handled>>

\* lines 154-168: job_data, where full_name.split("/")[1] raises IndexError
\* for a name without "/"; background_tasks.add_task(process_review,
\* job_data) and the response
WhSchedule ==
    /\ wh_pc = "schedule"
    /\ IF wh_request.body.slash
       THEN /\ wh_scheduled' = wh_scheduled + 1
            /\ wh_jobs' = wh_jobs + 1
            /\ WhRespond("processing")
       ELSE /\ WhRespond("raised")
            /\ UNCHANGED <<wh_scheduled, wh_jobs>>
    /\ UNCHANGED <<whRest, wh_secret, wh_request, wh_repo_known, wh_created,
                   wh_reviews, wh_handled>>

WhNext ==
    \/ WhReceive
    \/ WhEvent
    \/ WhVerify
    \/ WhParse
    \/ WhRepository
    \/ WhReview
    \/ WhSchedule


----------------------------------------------------------------------------

MainInit ==
    /\ pc = "construct"
    /\ propagated = FALSE
    /\ failedAt = "none"
    /\ reviewStatus = "pending"
    /\ reviewCommentId = NullId
    /\ statusWrites = <<>>
    /\ failedWriteOk = FALSE
    /\ repo_settings = NoSettings
    /\ broadcasts = <<>>
    /\ rateKey = NoKey
    /\ attempt = 0
    /\ cpCalls = <<>>
    /\ sleeps = 0
    /\ incrCalls = 0
    /\ supAgents = [p \in Passes |-> "default"]
    /\ orchState = "idle"
    /\ orchCalls = 0
    /\ passState = [p \in Passes |-> "idle"]
    /\ buckets = EmptyBuckets
    /\ final_comment = EmptyComment
    /\ analyzeCalls = [p \in Passes |-> 0]
    /\ critiqueCalls = 0
    /\ renderCalls = 0
    /\ all_findings = <<>>
    /\ persisted = <<>>
    /\ createCalls = 0
    /\ posted = NoComment
    /\ postCalls = 0
    /\ comment_id = NullId
    /\ effects = <<>>
    /\ diff = NoDiff
    /\ diff_content = NoDiff
    /\ critique_result = EmptyBuckets

Init == MainInit /\ LlmIdle /\ CtxIdle /\ WsIdle /\ RlIdle /\ DpIdle /\ FmtIdle
    /\ LgIdle /\ EscIdle /\ SchIdle /\ LmIdle /\ WhIdle

Next ==
    \/ Construct
    \/ UpdateProcessing
    \/ FetchSettings
    \/ SkipDisabled
    \/ FetchDiff
    \/ UpdateDiff
    \/ FetchIgnore
    \/ FetchContext
    \/ RateInit
    \/ RateCheck
    \/ Sleep
    \/ RunSupervisor
    \/ \E p \in Passes : RunNode(p)
    \/ GraphRaise
    \/ RunCritique
    \/ CombineFindings
    \/ SupervisorReturn
    \/ SupervisorRaise
    \/ Increment
    \/ Collect
    \/ SaveFindings
    \/ PostComment
    \/ UpdateCompleted
    \/ Handler
    \/ OtherRunsFill
    \/ KeyExpires

Spec == Init /\ [][Next]_vars

\* one call of invoke_structured, for every schema and max_retries argument
InitLLM == MainInit /\ LlmInit /\ CtxIdle /\ WsIdle /\ RlIdle /\ DpIdle /\ FmtIdle
    /\ LgIdle /\ EscIdle /\ SchIdle /\ LmIdle /\ WhIdle

SpecLLM == InitLLM /\ [][LlmNext]_vars

\* one call of _fetch_file_contents, for every length of the file list and
\* every answer of the host to each fetch
InitContext == MainInit /\ LlmIdle /\ CtxInit /\ WsIdle /\ RlIdle /\ DpIdle /\ FmtIdle
    /\ LgIdle /\ EscIdle /\ SchIdle /\ LmIdle /\ WhIdle

SpecContext == InitContext /\ [][CtxNext]_vars

\* the listeners of one review and the broadcasts sent to them
InitWs == MainInit /\ LlmIdle /\ CtxIdle /\ WsIdle /\ RlIdle /\ DpIdle /\ FmtIdle
    /\ LgIdle /\ EscIdle /\ SchIdle /\ LmIdle /\ WhIdle

SpecWs == InitWs /\ [][WsNext]_vars

\* the runs that share the rate counter, concurrent or one after another
InitRate == MainInit /\ LlmIdle /\ CtxIdle /\ WsIdle /\ RlInit /\ DpIdle /\ FmtIdle
    /\ LgIdle /\ EscIdle /\ SchIdle /\ LmIdle /\ WhIdle

SpecRate == InitRate /\ [][RlNext]_vars

\* extraction and filtering of a diff, for every diff and ignore file
InitDiff == MainInit /\ LlmIdle /\ CtxIdle /\ WsIdle /\ RlIdle /\ DpInit /\ FmtIdle
    /\ LgIdle /\ EscIdle /\ SchIdle /\ LmIdle /\ WhIdle

SpecDiff == InitDiff /\ [][DpNext]_vars

\* one call of CommentFormatter.format, for every three lists
InitFormat ==
    MainInit /\ LlmIdle /\ CtxIdle /\ WsIdle /\ RlIdle /\ DpIdle /\ FmtInit
    /\ LgIdle /\ EscIdle /\ SchIdle /\ LmIdle /\ WhIdle

SpecFormat == InitFormat /\ [][FmtNext]_vars

\* the language selection of a review, for every file list and settings
InitLang ==
    MainInit /\ LlmIdle /\ CtxIdle /\ WsIdle /\ RlIdle /\ DpIdle /\ FmtIdle
    /\ LgInit /\ EscIdle /\ SchIdle /\ LmIdle /\ WhIdle

SpecLang == InitLang /\ [][LgNext]_vars

\* the escape repair of a response text, for every text
InitEscapes ==
    MainInit /\ LlmIdle /\ CtxIdle /\ WsIdle /\ RlIdle /\ DpIdle /\ FmtIdle
    /\ LgIdle /\ EscInit /\ SchIdle /\ LmIdle /\ WhIdle

SpecEscapes == InitEscapes /\ [][EscNext]_vars

\* a run of the graph with the data of every response validated
InitSchema ==
    MainInit /\ LlmIdle /\ CtxIdle /\ WsIdle /\ RlIdle /\ DpIdle /\ FmtIdle
    /\ LgIdle /\ EscIdle /\ SchInit /\ LmIdle /\ WhIdle

SpecSchema == InitSchema /\ [][SchNext]_vars


\* callers of increment on one key, and the two queries
InitLimiter ==
    MainInit /\ LlmIdle /\ CtxIdle /\ WsIdle /\ RlIdle /\ DpIdle /\ FmtIdle
    /\ LgIdle /\ EscIdle /\ SchIdle /\ LmInit /\ WhIdle

SpecLimiter == InitLimiter /\ [][LmNext]_vars

\* webhook requests handled one after another
InitWebhook ==
    MainInit /\ LlmIdle /\ CtxIdle /\ WsIdle /\ RlIdle /\ DpIdle /\ FmtIdle
    /\ LgIdle /\ EscIdle /\ SchIdle /\ LmIdle /\ WhInit

SpecWebhook == InitWebhook /\ [][WhNext]_vars

TypeOK ==
    /\ reviewStatus \in ReviewStatus
    /\ repo_settings \in Settings \cup {NoSettings}
    /\ \A p \in Passes : buckets[p] \in Seq(AgentFinding)

----------------------------------------------------------------------------
(* Vocabulary of the properties *)

Returned == pc = "returned"

Last(seq) == seq[Len(seq)]

\* the pass is disabled by the agents_enabled settings of the repository
DisabledPass(p) ==
    repo_settings # NoSettings /\ ~repo_settings.agents_enabled[p]

\* the entries of a comment, over all its sections
RECURSIVE CommentEntries(_)
CommentEntries(sections) ==
    IF sections = <<>> THEN <<>>
    ELSE Head(sections).entries \o CommentEntries(Tail(sections))

PassOfLabel(label) ==
    CASE label = "Logic" -> "logic"
      [] label = "Security" -> "security"
      [] label = "Quality" -> "quality"

\* the findings of a comment, as the records persistence would hold for them
CommentFindings(comment) ==
    {_map_finding(e.finding, PassOfLabel(e.agent)) :
        e \in Range(CommentEntries(comment.sections))}

\* no update_status call of the run raised
StatusWritesAccepted ==
    /\ failedAt \notin {"update_processing", "update_completed"}
    /\ (failedAt # "none" => failedWriteOk)

ThresholdRank == SEVERITY_RANK(severity_threshold(repo_settings))

----------------------------------------------------------------------------
(* C1 - C5 *)

\* C1: whenever a run ends with the Review in status failed, the run has
\* posted no comment and has persisted no findings (create_many was not
\* performed), whichever step raised.
\* Refuted by the code: create_many (step 7) runs before post_comment (step 8)
\* and before the last status write, and nothing is undone when those raise.
C1_FailedRunLeftNothing ==
    (Returned /\ reviewStatus = "failed") =>
        /\ postCalls = 0 /\ posted = NoComment
        /\ createCalls = 0 /\ persisted = <<>>

\* C2: a pass disabled by agents_enabled is never analyzed, and its bucket is
\* empty when the buckets are handed to the reconciliation pass.
\* Refuted by the code: ReviewSupervisor.__init__ replaces the None given for
\* a disabled pass by a default agent, which the graph then runs.
C2_DisabledPassNotRun ==
    [][\A p \in Passes :
          DisabledPass(p) =>
              /\ analyzeCalls'[p] = 0
              /\ (critiqueCalls' # critiqueCalls => buckets[p] = <<>>)]_vars

\* C3: the posted comment holds no finding below the severity threshold: the
\* findings of the posted report are exactly the findings handed to
\* persistence.
\* Refuted by the code: final_comment is rendered inside the graph from the
\* unfiltered buckets, the threshold is applied to the persisted list only.
C3_PostedRespectsThreshold ==
    posted # NoComment =>
        /\ \A f \in CommentFindings(posted) : Keeps(f, ThresholdRank)
        /\ CommentFindings(posted) = Range(all_findings)

\* C4: no exception leaves process_review, whichever collaborator fails and
\* wherever in the run.
\* Refuted by the code: lines 186-191 (get_db, GitHubService(),
\* ReviewSupervisor()) run before the try block.
C4_NothingPropagates == ~propagated

\* C5: the status writes of a run are processing and then exactly one of
\* completed or failed; a run with a failing step ends failed, a run without
\* one ends completed.  Stated for the runs that entered the try block and
\* whose status writes were all accepted by persistence.
\* Refuted by the code: the broadcast that follows the completed write is
\* inside the try block, so its exception makes the handler write failed after
\* completed.
C5_StatusWrites ==
    (Returned /\ ~propagated /\ StatusWritesAccepted) =>
        /\ statusWrites \in {<<"processing", "completed">>,
                            <<"processing", "failed">>}
        /\ (failedAt = "none" <=> Last(statusWrites) = "completed")

----------------------------------------------------------------------------
(* C6 - C10 *)

\* C6: within one run of the graph critique is invoked exactly once and only
\* after each of the three analysis nodes has returned, in whichever order
\* they return; the renderer runs exactly once, only after critique returned.
C6_JoinThenCritiqueThenRender ==
    [][/\ (critiqueCalls' # critiqueCalls =>
              /\ critiqueCalls = 0
              /\ \A p \in Passes : passState[p] = "done")
       /\ (renderCalls' # renderCalls =>
              /\ renderCalls = 0
              /\ critiqueCalls = 1
              /\ orchState = "combine")
       /\ (orchState' = "done" =>
              /\ critiqueCalls' = 1
              /\ renderCalls' = 1)]_vars

\* a graph run ended with the three passes analyzed, one critique, one render
C6_Witness ==
    /\ orchState = "done"
    /\ critiqueCalls = 1
    /\ renderCalls = 1
    /\ \A p \in Passes : analyzeCalls[p] = 1

\* the graph run raised: a node raised, or critique did
GraphRunRaised ==
    \/ NodeFailed(passState)
    \/ orchState = "raised"
    \/ failedAt = "supervisor_run"

\* C7: when an analysis pass or the reconciliation pass raises, the graph run
\* raises to process_review even if the other passes returned: the renderer
\* is not invoked, no final comment exists, nothing is posted, and the
\* handler of process_review writes failed (the record holds failed once that
\* write is accepted) and never completed.
C7_PassFailureFailsRun ==
    GraphRunRaised =>
        /\ renderCalls = 0
        /\ final_comment = EmptyComment
        /\ orchState \notin {"combine", "done"}
        /\ postCalls = 0 /\ posted = NoComment
        /\ pc \in {"supervisor_run", "handler", "returned"}
        /\ "completed" \notin Range(statusWrites)
        /\ (Returned => failedAt = "supervisor_run")
        /\ (Returned /\ failedWriteOk => reviewStatus = "failed")

\* one pass raised, another returned, and the Review ended failed
C7_Witness ==
    /\ Returned
    /\ reviewStatus = "failed"
    /\ \E p, q \in Passes : passState[p] = "raised" /\ passState[q] = "done"

\* the rank table and the severity mapping of the claim
ClaimRank(severity) ==
    CASE severity = "critical" -> 0
      [] severity = "high" -> 1
      [] severity = "medium" -> 2
      [] severity = "low" -> 3
      [] severity = "info" -> 4

ClaimMapped(agent_severity) ==
    CASE agent_severity = "critical" -> "critical"
      [] agent_severity = "warning" -> "medium"
      [] agent_severity = "info" -> "info"

ClaimBucket(b, p) ==
    [i \in 1..Len(b[p]) |->
        [agent_type |-> p, severity |-> ClaimMapped(b[p][i].severity),
         title |-> b[p][i].title]]

\* the findings at or above threshold T, in the order logic, security,
\* quality and in bucket order within each
ClaimKept(b, T) ==
    SelectSeq(ClaimBucket(b, "logic") \o ClaimBucket(b, "security")
                  \o ClaimBucket(b, "quality"),
              LAMBDA f : ClaimRank(f.severity) <= ClaimRank(T))

ClaimThreshold ==
    IF repo_settings = NoSettings THEN "info"
    ELSE repo_settings.severity_threshold

\* C8: for every threshold T and every post-reconciliation finding set the
\* list handed to persistence is exactly the findings whose mapped severity
\* has rank <= rank(T), in the order logic, security, quality and in bucket
\* order; threshold info keeps every finding, threshold critical keeps only
\* critical ones, a repository without settings uses info.
C8_ThresholdFilter ==
    (pc = "create_many" \/ createCalls > 0) =>
        /\ all_findings = ClaimKept(buckets, ClaimThreshold)
        /\ (createCalls > 0 => all_findings # <<>>)
        /\ persisted \in {<<>>, all_findings}
        /\ (ClaimThreshold = "info" =>
               Len(all_findings) = SumLen(buckets, Passes))
        /\ (ClaimThreshold = "critical" =>
               \A f \in Range(all_findings) : f.severity = "critical")

\* threshold medium dropped one of two findings and the other was stored
C8_Witness ==
    /\ createCalls = 1
    /\ Len(persisted) = 1
    /\ SumLen(buckets, Passes) = 2
    /\ repo_settings # NoSettings
    /\ repo_settings.severity_threshold = "medium"

\* can_proceed returned False k times and then True
FalsesThenTrue(k) == [i \in 1..(k + 1) |-> i = k + 1]

\* C9: if can_proceed returns False k times (k in 0..2) and then True, the
\* run makes exactly k delays, all before supervisor.run, calls
\* supervisor.run once and, no call of the run raising, ends completed.
C9_RetryThenProceed ==
    /\ \A k \in 0..2 :
          cpCalls = FalsesThenTrue(k) =>
              /\ sleeps = k
              /\ orchCalls <= 1
              /\ (Returned /\ failedAt = "none" =>
                     /\ orchCalls = 1
                     /\ reviewStatus = "completed")
    /\ (orchCalls >= 1 =>
           \E k \in 0..2 : cpCalls = FalsesThenTrue(k) /\ sleeps = k)

\* False twice, then True: two delays, one supervisor.run, completed
C9_Witness ==
    /\ Returned
    /\ cpCalls = <<FALSE, FALSE, TRUE>>
    /\ sleeps = 2
    /\ orchCalls = 1
    /\ reviewStatus = "completed"

AllFalse(results) == \A i \in 1..Len(results) : ~results[i]

\* C10: if can_proceed returns False on every attempt the run fails after 3
\* calls of can_proceed and 2 delays: supervisor.run is never called, the
\* counter is not incremented, nothing is persisted or posted, and the
\* handler writes failed (the record holds failed once that write is
\* accepted, and processing otherwise).
C10_RateLimitExhausted ==
    /\ (AllFalse(cpCalls) =>
           /\ Len(cpCalls) <= 3 /\ sleeps <= 2
           /\ orchCalls = 0 /\ incrCalls = 0
           /\ createCalls = 0 /\ persisted = <<>>
           /\ postCalls = 0 /\ posted = NoComment)
    /\ (AllFalse(cpCalls) /\ Len(cpCalls) = 3 =>
           /\ sleeps = 2
           /\ pc \in {"handler", "returned"}
           /\ failedAt = "rate_limit")
    /\ (failedAt = "rate_limit" =>
           /\ cpCalls = <<FALSE, FALSE, FALSE>>
           /\ sleeps = 2)
    /\ (Returned /\ failedAt = "rate_limit" =>
           IF failedWriteOk
           THEN /\ reviewStatus = "failed"
                /\ statusWrites = <<"processing", "failed">>
           ELSE reviewStatus = "processing")

\* three refusals and the Review ended failed
C10_Witness ==
    /\ Returned
    /\ cpCalls = <<FALSE, FALSE, FALSE>>
    /\ sleeps = 2
    /\ reviewStatus = "failed"

----------------------------------------------------------------------------
(* C11 - C14 *)

RECURSIVE ClaimWithoutSections(_, _)
\* a diff of file sections of two lines each, without the sections of the
\* files named
ClaimWithoutSections(d, names) ==
    IF d = <<>> THEN <<>>
    ELSE LET rest == ClaimWithoutSections(SubSeq(d, 3, Len(d)), names)
         IN IF \E n \in names : d[1] = HeaderLine(n, n)
            THEN rest ELSE SubSeq(d, 1, 2) \o rest

\* the pipeline of a run, as the calls it makes in order
FullPipeline ==
    <<"get_pr_diff", "update_diff", "get_file_content", "filter_diff",
      "_fetch_file_contents", "rate_limit", "supervisor_run", "create_many",
      "post_comment", "update_status_completed">>

\* a sequence without the entries equal to x
Without(seq, x) == SelectSeq(seq, LAMBDA e : e # x)

\* the run went through the Orchestrator and ended with the Review completed
CompletedFullPipeline ==
    /\ Returned
    /\ reviewStatus = "completed"
    /\ orchCalls > 0

\* the settings of the repository have review disabled
ReviewDisabledBySettings ==
    repo_settings # NoSettings /\ ~repo_settings.enabled

\* C11: when the settings of the repository have review disabled, the only
\* call process_review makes after reading them is the completed status
\* write: the Review goes from processing directly to completed, with no diff
\* fetch, no file fetch, no rate-limit check, no analysis or reconciliation
\* pass, no persisted finding and no posted comment.
C11_DisabledShortCircuit ==
    ReviewDisabledBySettings =>
        /\ effects \in {<<>>, <<"update_status_completed">>}
        /\ diff = NoDiff /\ diff_content = NoDiff
        /\ cpCalls = <<>> /\ sleeps = 0 /\ incrCalls = 0
        /\ orchCalls = 0 /\ critiqueCalls = 0 /\ renderCalls = 0
        /\ \A p \in Passes : analyzeCalls[p] = 0
        /\ createCalls = 0 /\ persisted = <<>>
        /\ postCalls = 0 /\ posted = NoComment
        /\ statusWrites[1] = "processing"
        /\ (Len(statusWrites) >= 2 /\ failedAt # "update_completed" =>
               statusWrites[2] = "completed")
        /\ (Returned /\ failedAt = "none" =>
               /\ statusWrites = <<"processing", "completed">>
               /\ reviewStatus = "completed")

\* a run of a repository with review disabled ended completed
C11_Witness ==
    /\ Returned
    /\ ReviewDisabledBySettings
    /\ reviewStatus = "completed"
    /\ effects = <<"update_status_completed">>

\* C12: a run that ends completed through the full pipeline made its calls
\* in the order fetch diff, store the raw diff, filter by the ignore rules,
\* fetch the file context, rate-limit step, Orchestrator, persist the
\* surviving findings (when there are any), post the comment, mark completed,
\* each once; the stored diff is the unfiltered one; the comment was posted
\* exactly once and the completed record carries the non-null identifier of
\* that post.
C12_PipelineOrder ==
    CompletedFullPipeline =>
        /\ effects = IF all_findings # <<>> THEN FullPipeline
                     ELSE Without(FullPipeline, "create_many")
        /\ orchCalls = 1
        /\ createCalls = (IF all_findings # <<>> THEN 1 ELSE 0)
        /\ persisted = all_findings
        /\ diff_content = PrDiff
        /\ \E user_patterns \in UserPatterns :
              diff = ClaimWithoutSections(PrDiff, {yarn_lock} \cup Range(user_patterns))
        /\ diff # diff_content
        /\ postCalls = 1
        /\ posted = final_comment
        /\ comment_id # NullId
        /\ reviewCommentId = comment_id
        /\ statusWrites = <<"processing", "completed">>

\* a completed run that persisted findings and whose ignore file dropped a
\* file of the diff
C12_Witness ==
    /\ CompletedFullPipeline
    /\ effects = FullPipeline
    /\ diff = <<HeaderLine(app_py, app_py), TextLine>>
    /\ reviewCommentId = CommentId

\* the checkpoints of the claim, in its order
ClaimCheckpoints ==
    <<"fetching_diff", "fetching_context", "logic_agent", "security_agent",
      "quality_agent", "critique_agent", "deduplicating", "formatting",
      "posting", "complete">>

\* C13: a run that completes the full pipeline emits the ten checkpoints
\* fetching_diff ... complete, each once and in this order, with strictly
\* increasing percentages.
\* Refuted by the code: process_review never emits security_agent,
\* quality_agent or deduplicating.
C13_ProgressCheckpoints ==
    CompletedFullPipeline =>
        /\ broadcasts = ClaimCheckpoints
        /\ \A i \in 1..(Len(broadcasts) - 1) :
              PROGRESS_STAGES[broadcasts[i]] < PROGRESS_STAGES[broadcasts[i + 1]]

\* C14: a failure to fetch a file from the source-control host (a context
\* file or the ignore-rules file) never fails the run; of the calls to the
\* host only the diff fetch and the comment post are run-fatal.
\* Refuted by the code: get_file_content catches httpx.HTTPStatusError only,
\* and the fetch of .codeguardignore (line 227) is not inside a handler of its
\* own, so a connection error or a timeout there fails the run.
C14_FileFetchNeverFatal ==
    failedAt \notin {"fetch_ignore", "fetch_context"}

----------------------------------------------------------------------------
(* C18 - C19 *)

\* C18: once critique has returned, the three buckets of the state are the
\* three lists of its response, up to the end of the graph run; the final
\* comment is the rendering of those three lists; and no analysis pass and no
\* second critique runs after critique returned, the renderer included.
C18_CritiqueIsAuthoritative ==
    [][/\ (orchState' \in {"combine", "done"} =>
              \A p \in Passes : buckets'[p] = critique_result'[p])
       /\ (renderCalls' # renderCalls =>
              /\ final_comment' = Format(critique_result["logic"],
                                         critique_result["security"],
                                         critique_result["quality"])
              /\ buckets' = buckets
              /\ critique_result' = critique_result)
       /\ (critiqueCalls >= 1 =>
              /\ analyzeCalls' = analyzeCalls
              /\ critiqueCalls' = critiqueCalls)]_vars

\* the graph ended with a comment: critique dropped the finding of a pass
\* and returned one in another bucket
C18_Witness ==
    /\ orchState = "done"
    /\ final_comment.kind = "report"
    /\ critique_result["logic"] = <<>>
    /\ critique_result["quality"] # <<>>
    /\ buckets = critique_result

----------------------------------------------------------------------------
(* C16 - C17 *)

\* the response of a call is non-empty, parses and validates against the
\* schema (an array of findings is accepted for the schema that has a
\* findings field)
ClaimGood(entry, schema) ==
    /\ entry.kind = "response"
    /\ \/ entry.content \in {"object", "fenced_object"}
       \/ entry.content = "findings_list" /\ schema = "AgentResponse"

\* the call returned a response that is empty, unparsable or invalid
ClaimContentFailure(entry, schema) ==
    entry.kind = "response" /\ ~ClaimGood(entry, schema)

\* the error of an attempt that failed on its response
ClaimErrorOf(entry) ==
    CASE entry.content \in {"none", "blank"} ->
             "ValueError: LLM returned empty response"
      [] entry.content = "fenced_blank" ->
             "ValueError: LLM returned empty JSON content"
      [] entry.content = "garbage" -> "JSONDecodeError"
      [] OTHER -> "ValidationError"

\* C16: invoke_structured makes at most max_retries + 1 model calls (3 by
\* default); it returns the record of the first attempt whose response is
\* good and makes no call after it; an empty or whitespace-only response is
\* a failed attempt like an unparsable or invalid one; when every attempt
\* failed on its response it raises the error of the last attempt after
\* exactly max_retries delays.
C16_BoundedRetry ==
    /\ Len(llm_log) <= llm_max_retries + 1
    /\ llm_sleeps <= llm_max_retries
    /\ (llm_max_retries = default_max_retries => Len(llm_log) <= 3)
    /\ (llm_pc \in {"call", "sleep"} =>
           \A i \in 1..Len(llm_log) : ~ClaimGood(llm_log[i], llm_schema))
    /\ (llm_pc = "returned" =>
           /\ ClaimGood(Last(llm_log), llm_schema)
           /\ \A i \in 1..(Len(llm_log) - 1) : ~ClaimGood(llm_log[i], llm_schema)
           /\ llm_out = [kind |-> "record", schema |-> llm_schema,
                         attempt |-> Len(llm_log) - 1]
           /\ llm_sleeps = Len(llm_log) - 1)
    /\ ((/\ llm_pc = "raised"
         /\ \A i \in 1..Len(llm_log) :
               ClaimContentFailure(llm_log[i], llm_schema)) =>
           /\ Len(llm_log) = llm_max_retries + 1
           /\ llm_sleeps = llm_max_retries
           /\ llm_out = [kind |-> "error",
                         error |-> ClaimErrorOf(Last(llm_log)),
                         attempt |-> llm_max_retries]
           /\ (llm_max_retries = default_max_retries =>
                  Len(llm_log) = 3 /\ llm_sleeps = 2))

\* with the default max_retries: a whitespace-only response, an unparsable
\* one, and the third attempt returned the record
C16_Witness ==
    /\ llm_pc = "returned"
    /\ llm_max_retries = 2
    /\ Len(llm_log) = 3
    /\ llm_log[1].kind = "response" /\ llm_log[1].content = "blank"
    /\ llm_log[2].kind = "response" /\ llm_log[2].content = "garbage"
    /\ llm_sleeps = 2

\* C17: a failure of the model call itself (the call raising, for instance a
\* network or quota error) is retried with the fixed delay; invoke_structured
\* raises only when the retries are exhausted.
\* Refuted by the code: the handler of the loop catches json.JSONDecodeError
\* and ValueError only, any other exception of self.llm.invoke leaves
\* invoke_structured at once, without delay or retry.
C17_ModelCallRetried ==
    llm_pc = "raised" =>
        /\ Len(llm_log) = llm_max_retries + 1
        /\ llm_sleeps = llm_max_retries

----------------------------------------------------------------------------
(* C15 *)

\* the UTF-8 size of an entry: its lines, the newlines between them, the
\* final newline of an untruncated text, and the marker
ClaimSize(content) ==
    content.lines * content.line_bytes + (content.lines - 1)
        + (IF content.eol THEN 1 ELSE 0)
        + (IF content.more > 0 THEN 30 + Digits(content.more) ELSE 0)

\* the total size of the entries whose path is below k
RECURSIVE ClaimSizeBelow(_, _)
ClaimSizeBelow(entries, k) ==
    IF entries = <<>> THEN 0
    ELSE (IF Head(entries).path < k THEN ClaimSize(Head(entries).content) ELSE 0)
             + ClaimSizeBelow(Tail(entries), k)

\* what the entry of a text holds: its first 500 lines, and the marker with
\* the number of lines left out exactly when the text is longer
ClaimEntry(text) ==
    [lines |-> IF text.lines > 500 THEN 500 ELSE text.lines,
     line_bytes |-> text.line_bytes,
     eol |-> IF text.lines > 500 THEN FALSE ELSE text.eol,
     more |-> IF text.lines > 500 THEN text.lines - 500 ELSE 0]

\* C15: _fetch_file_contents fetches and returns at most 5 entries of at
\* most 50 000 bytes together; each entry holds the first 500 lines of its
\* file at most, with the truncation marker exactly when the file was longer;
\* once a file would push the total past the budget it is not added and no
\* later file is fetched or added.
C15_BoundedContext ==
    /\ Len(ctx_fetched) <= 5
    /\ Len(file_contents) <= 5
    /\ ClaimSizeBelow(file_contents, ctx_files + 1) <= 50000
    /\ \A j \in 1..Len(file_contents) :
          LET e == file_contents[j]
              f == ctx_fetched[e.path].outcome
          IN /\ f.kind = "text"
             /\ e.content = ClaimEntry(f.text)
             /\ e.content.lines <= 500
             /\ (e.content.more > 0 <=> f.text.lines > 500)
    /\ \A k \in 1..Len(ctx_fetched) :
          LET f == ctx_fetched[k].outcome
          IN (/\ f.kind = "text"
              /\ ClaimSizeBelow(file_contents, k) + ClaimSize(ClaimEntry(f.text))
                     > 50000) =>
                 /\ k = Len(ctx_fetched)
                 /\ ctx_pc # "loop"
                 /\ \A j \in 1..Len(file_contents) : file_contents[j].path < k
    /\ (ctx_pc = "returned" =>
           ctx_result = IF file_contents = <<>> THEN <<"None">> ELSE file_contents)

\* six files: the first is truncated, the second fits, the third would pass
\* the budget, so the loop stops with two entries and three fetches
C15_Witness ==
    /\ ctx_pc = "returned"
    /\ ctx_files = 6
    /\ Len(ctx_fetched) = 3
    /\ Len(file_contents) = 2
    /\ file_contents[1].content.more = 1
    /\ ctx_fetched[3].outcome.kind = "text"

----------------------------------------------------------------------------
(* C20 *)

\* the websockets whose send_json raised in this broadcast
ClaimFailed == {disconnected[k] : k \in 1..Len(disconnected)}

\* the listeners the claim calls "the others": registered when the message
\* was broadcast, delivery to them did not fail, and their own endpoint has
\* not taken them out of the registry since
ClaimOthers == ws_start \ (ClaimFailed \cup ws_left)

\* C20: when a broadcast has returned and the delivery to some listener
\* failed in it, every other listener of the review has received the message
\* and is still registered, and every listener whose delivery failed is out
\* of the registry.
C20_DeliveryFailureIsolated ==
    (ws_pc = "done" /\ ClaimFailed # {}) =>
        /\ \A w \in ClaimOthers : w \in ws_got /\ w \in Registered(active_connections)
        /\ \A w \in ClaimFailed : w \notin Registered(active_connections)

\* the same statement for the broadcasts during which no endpoint removed
\* its websocket: it holds for those
BroadcastIsolatedWhenRegistryStable ==
    ws_left = {} => C20_DeliveryFailureIsolated

\* the failing listener is out of the registry after every broadcast
FailedListenersRemoved ==
    ws_pc = "done" => \A w \in ClaimFailed : w \notin Registered(active_connections)

----------------------------------------------------------------------------
(* C21 *)

\* the runs of the model that have passed the rate gate
ClaimAdmitted == {r \in Runs : rl_pc[r] \in {"admitted", "increment", "done"}}

\* C21 as stated, for runs executed one after another: at most max_requests
\* runs pass the rate gate within one window.
C21_SerialPassesBounded ==
    rl_serial => rl_passes <= max_requests

\* with runs executed one after another, at most max_requests runs pass the
\* rate gate and increment the counter within one window: the counter never
\* exceeds max_requests
SerialCountBounded ==
    rl_serial => (rl_key # NoKey => rl_key[1] <= max_requests)

\* with concurrent runs there is an interleaving in which more than
\* max_requests runs pass the gate within one window and all of them
\* increment the counter
ConcurrentOvershoot ==
    /\ ~rl_serial
    /\ rl_passes > max_requests
    /\ rl_key # NoKey
    /\ rl_key[1] > max_requests
    /\ Cardinality(ClaimAdmitted) >= 2

\* runs executed one after another: the gate turns a run away once the
\* counter holds max_requests
SerialGateCloses ==
    /\ rl_serial
    /\ rl_key = <<max_requests>>
    /\ \E r \in Runs : rl_pc[r] = "failed" /\ rl_attempt[r] = max_retries - 1

----------------------------------------------------------------------------
(* C22 - C25 *)

\* the line is the header of a file section: "diff --git a/X b/Y" with both
\* paths
ClaimIsFileHeader(line) ==
    \E a \in DiffPaths, b \in DiffPaths : line = HeaderLine(a, b)

\* the path X of a header line
ClaimHeaderFile(line) ==
    CHOOSE a \in DiffPaths : \E b \in DiffPaths : line = HeaderLine(a, b)

\* the path matches one of the built-in patterns, by its full path or by its
\* basename
ClaimMatchesDefault(path) ==
    \E k \in 1..Len(DEFAULT_IGNORE_PATTERNS) :
        \/ fnmatch(path, DEFAULT_IGNORE_PATTERNS[k])
        \/ fnmatch(Basename(path), DEFAULT_IGNORE_PATTERNS[k])

\* filter_diff has returned
ClaimFiltered == dp_pc \in {"context", "run", "done"}

\* C22: for every user-supplied pattern list, the empty list and a missing
\* ignore file included, every changed file of the diff that matches a
\* built-in default pattern is in the ignored list of filter_diff, the header
\* of its section is not in the filtered diff, and neither the file nor its
\* section is passed to the Orchestrator.
C22_DefaultFilesAlwaysIgnored ==
    ClaimFiltered =>
        \A path \in DiffPaths :
            (HeaderLine(path, path) \in Range(dp_raw) /\ ClaimMatchesDefault(path)) =>
                /\ path \in Range(dp_ignored)
                /\ HeaderLine(path, path) \notin Range(dp_diff)
                /\ path \notin Range(dp_files)
                /\ (dp_pc = "done" =>
                       /\ path \notin Range(dp_run.files)
                       /\ HeaderLine(path, path) \notin Range(dp_run.diff))

\* the same for the paths the header pattern gives: whatever the user list,
\* a path extract_files_from_diff gives that matches a built-in pattern is
\* ignored and is not passed on
ParsedDefaultFilesAlwaysIgnored ==
    ClaimFiltered =>
        \A path \in Range(extract_files_from_diff(dp_raw)) :
            ClaimMatchesDefault(path) =>
                /\ path \in Range(dp_ignored)
                /\ path \notin Range(dp_files)
                /\ \A line \in Range(dp_diff) : HeaderPath(line) # path
                /\ (dp_pc = "done" => path \notin Range(dp_run.files))

\* a section of a lock file under the default rules only, and one under a
\* user list, were both filtered out
DefaultsAppliedWithAndWithoutUserList ==
    /\ dp_pc = "done"
    /\ dp_raw = <<HeaderLine(app_py, app_py), HeaderLine(gemfile_lock, gemfile_lock),
                  TextLine>>
    /\ dp_patterns = <<docs_md>>
    /\ dp_ignored = <<gemfile_lock>>
    /\ dp_run = [diff |-> <<HeaderLine(app_py, app_py)>>, files |-> <<app_py>>]

\* C23: for every diff D, filter_diff with an empty rule list returns D itself
\* as the filtered diff, the full list of the changed files of D as the kept
\* files, and an empty ignored list.
C23_EmptyRulesRoundTrip ==
    (ClaimFiltered /\ dp_patterns = <<>>) =>
        /\ dp_diff = dp_raw
        /\ dp_files = extract_files_from_diff(dp_raw)
        /\ dp_ignored = <<>>

\* the diff has no file header
ClaimNoFileHeader(d) == \A line \in Range(d) : ~ClaimIsFileHeader(line)

\* C24: for every diff D without a "diff --git" file header, the empty and
\* the whitespace-only text included, and every rule list,
\* extract_files_from_diff(D) is the empty list and filter_diff returns D
\* unchanged with empty kept and ignored lists.
C24_NoHeaderUnchanged ==
    ClaimNoFileHeader(dp_raw) =>
        /\ (dp_pc = "filter" => dp_files = <<>>)
        /\ (ClaimFiltered =>
               /\ dp_diff = dp_raw
               /\ dp_files = <<>>
               /\ dp_ignored = <<>>)

\* the part of C24 on extract_files_from_diff alone holds
NoHeaderNoFiles ==
    (ClaimNoFileHeader(dp_raw) /\ dp_pc = "filter") => dp_files = <<>>

\* the part of C24 on filter_diff holds for the texts that are not
\* whitespace up to their first "diff --git " line
NoHeaderUnchangedUnlessBlank ==
    (ClaimNoFileHeader(dp_raw) /\ ClaimFiltered
     /\ ~IsBlankSection(Head(SplitSections(dp_raw)))) =>
        /\ dp_diff = dp_raw
        /\ dp_files = <<>>
        /\ dp_ignored = <<>>

\* the header lines of the diff, in order
ClaimHeaders == SelectSeq(dp_raw, ClaimIsFileHeader)

\* C25: extract_files_from_diff returns exactly one path for each well-formed
\* file header of the diff, in the order of the headers and with duplicates
\* kept; a line that starts with "diff --git " and lacks the two path tokens
\* gives no path and does not change the paths of the headers around it.
C25_OnePathPerHeader ==
    dp_pc = "filter" =>
        /\ Len(dp_files) = Len(ClaimHeaders)
        /\ \A k \in 1..Len(ClaimHeaders) :
              LET path == ClaimHeaderFile(ClaimHeaders[k])
              IN /\ Len(dp_files[k]) <= Len(path)
                 /\ SubSeq(path, 1, Len(dp_files[k])) = dp_files[k]
                 /\ (path # lib_b_yarn_lock => dp_files[k] = path)

\* the same header twice around a "diff --git " line without paths: two
\* paths, in order
C25_Witness ==
    /\ dp_pc = "filter"
    /\ dp_raw = <<HeaderLine(docs_md, docs_md), GitLine(<<"a", "/">> \o app_py),
                  HeaderLine(docs_md, docs_md)>>
    /\ dp_files = <<docs_md, docs_md>>

----------------------------------------------------------------------------
(* C26, C27 *)

\* the positions of the findings of the three lists passed to format
ClaimPositions ==
    {<<p, k>> \in Passes \X (1..MaxFormatFindings + 1) : k <= Len(fmt_in[p])}

\* number of findings of the severity, over the three lists
ClaimCount(severity) ==
    Cardinality({x \in ClaimPositions : fmt_in[x[1]][x[2]].severity = severity})

\* the severities that have findings, in the order critical, warning, info
ClaimPresent ==
    SelectSeq(<<"critical", "warning", "info">>, LAMBDA s : ClaimCount(s) > 0)

\* the lines of one kind of the text, in the order of the text
ClaimLinesOf(kind) == SelectSeq(fmt_out, LAMBDA l : l.line = kind)

\* C26: format returns the fixed no-issues message, with no severity section,
\* when the three lists are empty; otherwise the text has one summary line
\* for each severity with a non-zero count, with that count over the three
\* lists and the noun "issue" for 1 and "issues" otherwise, and one section
\* for each such severity, summary lines and sections both in the order
\* critical, warning, info, the summary before the sections; in both cases
\* the fixed footer line is the last line.
C26_RenderSummaryAndSections ==
    fmt_pc = "returned" =>
        /\ fmt_out[Len(fmt_out)] = Line("footer", <<>>)
        /\ Len(ClaimLinesOf("footer")) = 1
        /\ IF ClaimPositions = {}
           THEN /\ fmt_out = <<Line("title", <<>>), Line("blank", <<>>),
                               Line("no_issues", <<>>), Line("blank", <<>>),
                               Line("rule", <<>>), Line("footer", <<>>)>>
                /\ ClaimLinesOf("section_heading") = <<>>
           ELSE /\ ClaimLinesOf("no_issues") = <<>>
                /\ ClaimLinesOf("summary")
                   = [k \in 1..Len(ClaimPresent) |->
                        Line("summary",
                             <<ClaimPresent[k], ClaimCount(ClaimPresent[k]),
                               IF ClaimCount(ClaimPresent[k]) = 1
                               THEN "issue" ELSE "issues">>)]
                /\ ClaimLinesOf("section_heading")
                   = [k \in 1..Len(ClaimPresent) |->
                        Line("section_heading", <<ClaimPresent[k]>>)]
                /\ \A i, j \in 1..Len(fmt_out) :
                      (fmt_out[i].line = "summary"
                       /\ fmt_out[j].line = "section_heading") => i < j

\* two severities, one with two findings and one with one: "2 Critical
\* issues" and "1 Info issue", the critical section before the info section
C26_Witness ==
    /\ fmt_pc = "returned"
    /\ ClaimCount("critical") = 2 /\ ClaimCount("warning") = 0
    /\ ClaimCount("info") = 1
    /\ Len(fmt_in["quality"]) = 1 /\ fmt_in["quality"][1].severity = "critical"
    /\ ClaimLinesOf("summary")
       = <<Line("summary", <<"critical", 2, "issues">>),
           Line("summary", <<"info", 1, "issue">>)>>
    /\ ClaimLinesOf("section_heading")
       = <<Line("section_heading", <<"critical">>),
           Line("section_heading", <<"info">>)>>

\* the three lists empty: the no-issues message
NoIssuesRendered ==
    /\ fmt_pc = "returned"
    /\ ClaimPositions = {}
    /\ Line("no_issues", <<>>) \in Range(fmt_out)

RECURSIVE ClaimEntriesIn(_, _)
\* the finding entries of a text with the section each stands in: triples
\* <<severity of the section, finding, agent label>>, in the order of the text
ClaimEntriesIn(lines, section) ==
    IF lines = <<>> THEN <<>>
    ELSE LET l == Head(lines)
         IN IF l.line = "section_heading"
            THEN ClaimEntriesIn(Tail(lines), l.arg[1])
            ELSE IF l.line = "finding"
            THEN <<<<section, l.arg[1], l.arg[2]>>>> \o ClaimEntriesIn(Tail(lines), section)
            ELSE ClaimEntriesIn(Tail(lines), section)

\* the findings of a list with the label of the list
ClaimLabelled(bucket, label) == [k \in 1..Len(bucket) |-> <<bucket[k], label>>]

\* the findings passed to format: logic, then security, then quality, each
\* list in its own order
ClaimAllLabelled ==
    ClaimLabelled(fmt_in["logic"], "Logic")
    \o ClaimLabelled(fmt_in["security"], "Security")
    \o ClaimLabelled(fmt_in["quality"], "Quality")

\* the entries the section of a severity must hold
ClaimExpected(severity) ==
    LET mine == SelectSeq(ClaimAllLabelled, LAMBDA e : e[1].severity = severity)
    IN [k \in 1..Len(mine) |-> <<severity, mine[k][1], mine[k][2]>>]

\* C27: in the text of format every finding of the three lists appears
\* exactly once, in the section of its own severity and with the label of
\* the list it came from; inside a section the entries are in the order
\* logic, security, quality, and within one list in the order of the list.
C27_EntriesInBucketOrder ==
    fmt_pc = "returned" =>
        ClaimEntriesIn(fmt_out, "none")
        = ClaimExpected("critical") \o ClaimExpected("warning") \o ClaimExpected("info")

\* a section with entries of two lists, the logic one first although its
\* title comes later in the alphabet, and a quality finding of another
\* severity in its own section
C27_Witness ==
    /\ fmt_pc = "returned"
    /\ fmt_in["logic"] = <<[severity |-> "warning", title |-> "u"]>>
    /\ fmt_in["security"] = <<[severity |-> "warning", title |-> "t"]>>
    /\ fmt_in["quality"] = <<[severity |-> "critical", title |-> "t"]>>
    /\ ClaimEntriesIn(fmt_out, "none")
       = << <<"critical", [severity |-> "critical", title |-> "t"], "Quality">>,
            <<"warning", [severity |-> "warning", title |-> "u"], "Logic">>,
            <<"warning", [severity |-> "warning", title |-> "t"], "Security">> >>


----------------------------------------------------------------------------
(* Language detection and template selection *)

\* the language a path stands for: its last token is a known extension right
\* after a dot, upper or lower case
ClaimLanguage(f) ==
    IF Len(f) >= 2 /\ f[Len(f) - 1] = "." /\ Lower(f[Len(f)]) \in DOMAIN EXTENSION_MAP
    THEN EXTENSION_MAP[Lower(f[Len(f)])]
    ELSE NoLanguage

ClaimLanguages == {EXTENSION_MAP[e] : e \in DOMAIN EXTENSION_MAP}

\* number of the paths of files that stand for lang
ClaimFilesOf(files, lang) ==
    Cardinality({i \in 1..Len(files) : ClaimLanguage(files[i]) = lang})

\* files in every order
ClaimOrders(files) ==
    {[i \in 1..Len(files) |-> files[q[i]]] : q \in Permutations(1..Len(files))}

\* the language returned is one that the most paths stand for, and the
\* generic one exactly when no path stands for a language
MajorityLanguageReturned ==
    lg_pc # "detect" =>
       IF \A lang \in ClaimLanguages : ClaimFilesOf(lg_files, lang) = 0
       THEN lg_lang = "generic"
       ELSE /\ lg_lang \in ClaimLanguages
            /\ \A lang \in ClaimLanguages :
                  ClaimFilesOf(lg_files, lang) <= ClaimFilesOf(lg_files, lg_lang)

\* the language returned is the same for every order of the file list
LanguageIndependentOfOrder ==
    lg_pc # "detect" =>
       \A files \in ClaimOrders(lg_files) : detect_language(files) = lg_lang

\* every agent the supervisor holds has the template selected for its pass
SelectionUsedByAllPasses ==
    lg_pc = "built" =>
       \A p \in Passes : lg_agents[p] = get_prompts_for_language(lg_lang)[p]

\* C28: detect_language returns the language most paths map to by extension,
\* a tie is decided the same way for every order of the file list, without a
\* recognised extension the language is the generic one, and the three passes
\* all use the templates selected once for the review
C28_LanguageSelection ==
    /\ MajorityLanguageReturned
    /\ LanguageIndependentOfOrder
    /\ SelectionUsedByAllPasses

\* among the languages of the largest count, the one returned is the one
\* whose first path comes first in the file list
TieGoesToFirstSeen ==
    (lg_pc # "detect" /\ lg_lang # "generic") =>
       LET first(lang) == CHOOSE i \in 1..Len(lg_files) :
                             /\ ClaimLanguage(lg_files[i]) = lang
                             /\ \A j \in 1..(i - 1) : ClaimLanguage(lg_files[j]) # lang
       IN \A lang \in ClaimLanguages :
             ClaimFilesOf(lg_files, lang) = ClaimFilesOf(lg_files, lg_lang)
                => first(lg_lang) <= first(lang)

\* the agents built for enabled passes have the templates selected once
EnabledPassesUseSelection ==
    lg_pc = "built" =>
       \A p \in Passes :
          (lg_settings = NoSettings \/ lg_settings.agents_enabled[p])
             => lg_agents[p] = lg_prompts[p]

\* a tie between two languages of different templates
TieReached ==
    /\ lg_pc = "built"
    /\ lg_files = <<main_js, app_py>>
    /\ lg_lang = "javascript"

\* a disabled pass holds the default template while the others hold the
\* selected ones
DisabledPassHoldsDefault ==
    /\ lg_pc = "built"
    /\ lg_lang = "javascript"
    /\ lg_settings # NoSettings
    /\ ~lg_settings.agents_enabled["logic"]
    /\ lg_agents["logic"] = DefaultPrompt("logic")
    /\ lg_agents["security"] = Template("javascript", "security")


----------------------------------------------------------------------------
(* Escape repair *)

\* the text is read escape by escape from position i: TRUE when it does not
\* end inside an escape
RECURSIVE ClaimComplete(_, _)
ClaimComplete(text, i) ==
    IF i > Len(text) THEN TRUE
    ELSE IF text[i] # BS THEN ClaimComplete(text, i + 1)
         ELSE i < Len(text) /\ ClaimComplete(text, i + 2)

\* the text with the backslash of every invalid escape doubled, read escape
\* by escape from position i
RECURSIVE ClaimRepaired(_, _)
ClaimRepaired(text, i) ==
    IF i > Len(text) THEN <<>>
    ELSE IF text[i] # BS \/ i = Len(text)
         THEN <<text[i]>> \o ClaimRepaired(text, i + 1)
         ELSE IF text[i + 1] \in ValidEscapeChars
              THEN <<BS, text[i + 1]>> \o ClaimRepaired(text, i + 2)
              ELSE <<BS, BS, text[i + 1]>> \o ClaimRepaired(text, i + 2)

\* the characters the text is meant to hold: a valid escape stands for its
\* character, an invalid one for the backslash and the character after it
RECURSIVE ClaimIntended(_, _)
ClaimIntended(text, i) ==
    IF i > Len(text) THEN <<>>
    ELSE IF text[i] # BS \/ i = Len(text)
         THEN <<text[i]>> \o ClaimIntended(text, i + 1)
         ELSE IF text[i + 1] \in ValidEscapeChars
              THEN <<IF text[i + 1] = "n" THEN NL ELSE text[i + 1]>>
                      \o ClaimIntended(text, i + 2)
              ELSE <<BS, text[i + 1]>> \o ClaimIntended(text, i + 2)

\* every escape of the text is one of the wire format
RECURSIVE ClaimValid(_, _)
ClaimValid(text, i) ==
    IF i > Len(text) THEN TRUE
    ELSE IF text[i] # BS THEN ClaimValid(text, i + 1)
         ELSE /\ i < Len(text)
              /\ text[i + 1] \in ValidEscapeChars
              /\ ClaimValid(text, i + 2)

\* the result is the text with the backslash of every invalid escape doubled
\* and every valid escape as it was
InvalidEscapesDoubled ==
    (esc_pc # "call" /\ ClaimComplete(esc_in, 1)) =>
       esc_out = ClaimRepaired(esc_in, 1)

\* a valid text is returned unchanged
ValidTextUnchanged ==
    (esc_pc # "call" /\ ClaimValid(esc_in, 1)) => esc_out = esc_in

\* the repaired text parses, to the characters that were meant
RepairedTextParses ==
    (esc_pc \in {"parsed", "again"} /\ ClaimComplete(esc_in, 1)) =>
       esc_parsed = Parsed(ClaimIntended(esc_in, 1))

\* the repair of a repaired text changes nothing
RepairIdempotent ==
    esc_pc = "again" => esc_twice = esc_out

\* C29: _fix_json_escapes doubles the backslash of every invalid escape and
\* leaves valid escapes alone, returns a valid text unchanged, makes a text
\* whose only defect is invalid escapes parse to the characters meant, and
\* applied twice gives what it gives applied once
C29_EscapeRepair ==
    /\ InvalidEscapesDoubled
    /\ ValidTextUnchanged
    /\ RepairedTextParses
    /\ RepairIdempotent

\* the longest run of backslashes of the text is at most n long
ClaimRunsAtMost(text, n) ==
    \A i \in 1..(Len(text) - n) : \E j \in i..(i + n) : text[j] # BS

\* for a text without an apostrophe in which no escaped backslash comes
\* right before an invalid escape (no run of three backslashes), the four
\* parts hold
RepairOfSeparateEscapes ==
    (/\ \A i \in 1..Len(esc_in) : esc_in[i] # APOS
     /\ ClaimRunsAtMost(esc_in, 2))
       => C29_EscapeRepair

\* an invalid escape right after an escaped backslash is left as it was and
\* the text does not parse
EscapeAfterBackslashNotRepaired ==
    /\ esc_pc = "again"
    /\ esc_in = <<BS, BS, BS, "s">>
    /\ esc_out = esc_in
    /\ esc_parsed = JsonError

\* a valid text, an escaped backslash before an apostrophe, is changed into
\* one that does not parse
ValidTextBroken ==
    /\ esc_pc = "again"
    /\ esc_in = <<BS, BS, APOS>>
    /\ esc_out = <<BS, APOS>>
    /\ esc_parsed = JsonError

\* the repair changes its own result
SecondRepairDiffers ==
    /\ esc_pc = "again"
    /\ esc_in = <<BS, BS, BS, APOS>>
    /\ esc_out = <<BS, BS, APOS>>
    /\ esc_twice = <<BS, APOS>>

\* a text of the kind the repair is written for
RegexEscapeRepaired ==
    /\ esc_pc = "again"
    /\ esc_in = <<BS, "s", BS, "n">>
    /\ esc_out = <<BS, BS, "s", BS, "n">>
    /\ esc_parsed = Parsed(<<BS, "s", NL>>)


----------------------------------------------------------------------------
(* Closed enumerations of a finding *)

\* every finding of the three lists has its severity and its confidence in
\* the two enumerations
ClaimFindingsEnumerated(state) ==
    \A p \in Passes : \A i \in 1..Len(state[p]) :
       /\ state[p][i].severity \in {"critical", "warning", "info"}
       /\ state[p][i].confidence \in {"high", "medium", "low"}

\* the response being validated carries a value outside the enumerations
ClaimOtherValue ==
    \E p \in Passes : \E i \in 1..Len(sch_resp.data[p]) :
       \/ sch_resp.data[p][i].severity \notin {"critical", "warning", "info"}
       \/ sch_resp.data[p][i].confidence \notin {"high", "medium", "low", Omitted}

\* the lists the response being validated gives a value to
ClaimLists ==
    IF sch_resp.schema = "critique" THEN Passes ELSE {sch_resp.schema}

\* the findings the response being validated stands for, confidence medium
\* where it carries none
ClaimFindingsOf(raws) ==
    [i \in 1..Len(raws) |->
        [severity |-> raws[i].severity,
         confidence |-> IF raws[i].confidence = Omitted THEN "medium"
                        ELSE raws[i].confidence]]

\* C30: in every step of a run the findings of the three lists have severity
\* critical, warning or info and confidence high, medium or low; a response
\* with another value for either field is rejected and gives no finding to
\* the lists; a response without such a value gives its findings, with
\* confidence medium where the response carried none
C30_ClosedEnumerations ==
    [][/\ ClaimFindingsEnumerated(sch_buckets')
       /\ (sch_resp.state = "pending" /\ ClaimOtherValue) =>
             /\ sch_resp'.state = "rejected"
             /\ sch_buckets' = sch_buckets
       /\ sch_resp.state = "rejected" => sch_buckets' = sch_buckets
       /\ (sch_resp.state = "pending" /\ ~ClaimOtherValue) =>
             /\ sch_resp'.state = "accepted"
             /\ sch_buckets' = sch_buckets
       /\ sch_resp.state = "accepted" =>
             \A p \in ClaimLists :
                sch_buckets'[p] = ClaimFindingsOf(sch_resp.data[p])]_vars

\* a response of the critique with the severity high was rejected, while a
\* list holds a finding that was validated
C30_Witness ==
    /\ sch_pc = "critique"
    /\ sch_resp.state = "rejected"
    /\ sch_resp.data["logic"] = <<[severity |-> "high", confidence |-> "high"]>>
    /\ sch_buckets["security"] = <<[severity |-> "critical", confidence |-> "medium"]>>

\* a response without a confidence was validated
OmittedConfidenceAccepted ==
    /\ sch_resp.state = "accepted"
    /\ sch_resp.schema = "security"
    /\ sch_resp.data["security"] = <<[severity |-> "critical", confidence |-> Omitted]>>
    /\ sch_resp.record["security"] = <<[severity |-> "critical", confidence |-> "medium"]>>

\* a run that ended on a rejected response of the critique keeps the lists
\* of the passes
RejectedCritiqueKeepsLists ==
    /\ sch_pc = "raised"
    /\ \A p \in Passes : sch_pass[p] = "done"
    /\ sch_buckets["quality"] = <<[severity |-> "info", confidence |-> "high"]>>


----------------------------------------------------------------------------
(* The status of a Review after the write of completed *)

\* C31: once the run has written completed to the Review it writes no other
\* status: the write of completed is the last write and the Review stays
\* completed
C31_CompletedIsFinal ==
    \A i \in 1..Len(statusWrites) :
        statusWrites[i] = "completed" =>
            /\ i = Len(statusWrites)
            /\ reviewStatus = "completed"

\* a run whose last broadcast does not raise writes nothing after completed
CompletedIsFinalUnlessBroadcastRaises ==
    failedAt # "broadcast" => C31_CompletedIsFinal

\* the Review was completed with its comment id and reads failed at the end
CompletedThenFailed ==
    /\ pc = "returned"
    /\ statusWrites = <<"processing", "completed", "failed">>
    /\ reviewStatus = "failed"
    /\ posted # NoComment

\* the short-circuit of a repository with reviews disabled: completed, then
\* failed
DisabledCompletedThenFailed ==
    /\ pc = "returned"
    /\ orchCalls = 0
    /\ statusWrites = <<"processing", "completed", "failed">>


----------------------------------------------------------------------------
(* A broadcast interleaved with the endpoints' connect and disconnect *)

\* the listeners registered from the call of broadcast to its return
ClaimStayed == ws_start \ ws_left

\* C32: whatever the endpoints of other listeners do during a broadcast, the
\* broadcast does not raise, and when it has returned every listener that was
\* registered during the whole of it has been sent the message (or its own
\* send failed)
C32_BroadcastUnderInterleaving ==
    /\ ws_pc # "raised"
    /\ ws_pc = "done" =>
        \A w \in ClaimStayed : w \in ws_got \/ w \in ClaimFailed

\* no listener is sent the message of one broadcast twice
NoListenerSentTwice ==
    [][(ws_pc = "send" /\ ws_pc' = "loop") => ws_cur \notin ws_got \cup ClaimFailed]_vars

\* the statement holds for the broadcasts during which no endpoint removes
\* its websocket, connects included
BroadcastCompleteWhenNoneLeaves ==
    ws_left = {} => C32_BroadcastUnderInterleaving

\* the lookup of line 58 raised KeyError: the only listener left between the
\* test of line 54 and the loop
BroadcastRaisedKeyError ==
    /\ ws_pc = "raised"
    /\ ws_start # {}
    /\ active_connections = <<>>

\* a listener that stayed registered was skipped by the loop
StayedListenerSkipped ==
    /\ ws_pc = "done"
    /\ \E w \in ClaimStayed : w \notin ws_got \cup ClaimFailed


----------------------------------------------------------------------------
(* The three results of filter_diff against the diff it was given *)

RECURSIVE ClaimMinusSections(_, _, _)
\* the lines of d outside the sections of the files of the set gone: a
\* section runs from a "diff --git " line to the line before the next one;
\* dropping tells whether the lines before d belong to a section left out
ClaimMinusSections(d, gone, dropping) ==
    IF d = <<>> THEN <<>>
    ELSE LET line == Head(d)
             drop == IF line.kind = "git"
                     THEN HeaderPath(line) # NoMatch /\ HeaderPath(line) \in gone
                     ELSE dropping
         IN (IF drop THEN <<>> ELSE <<line>>)
            \o ClaimMinusSections(Tail(d), gone, drop)

\* the kept and the ignored list split the paths of the diff between them,
\* each in the order of the diff, and the filtered diff gives the kept list
ClaimListsPartition ==
    LET all == extract_files_from_diff(dp_raw)
        gone == Range(dp_ignored)
    IN /\ dp_ignored = SelectSeq(all, LAMBDA path : path \in gone)
       /\ dp_files = SelectSeq(all, LAMBDA path : path \notin gone)
       /\ extract_files_from_diff(dp_diff) = dp_files

\* C33: the kept and the ignored list of filter_diff hold each path of
\* extract_files_from_diff(diff) once, each in order of appearance;
\* extract_files_from_diff of the filtered diff is the kept list; and the
\* filtered diff is the diff without the sections of the ignored files, the
\* text before the first section and the kept sections unchanged and in order
C33_FilterPartitionsDiff ==
    ClaimFiltered =>
        /\ ClaimListsPartition
        /\ dp_diff = ClaimMinusSections(dp_raw, Range(dp_ignored), FALSE)

\* the part of C33 on the two lists and on the paths of the filtered diff
\* holds for every diff and pattern list
FilterListsPartitionPaths ==
    ClaimFiltered => ClaimListsPartition

\* the whole of C33 holds for the diffs whose text before the first
\* "diff --git " line is empty or not all whitespace
FilterPartitionsUnlessBlankPreamble ==
    (ClaimFiltered /\ (Head(SplitSections(dp_raw)) = <<>>
                        \/ ~IsBlankSection(Head(SplitSections(dp_raw))))) =>
        C33_FilterPartitionsDiff

\* a kept and an ignored file after a blank first line: the lists are right
\* and the blank line is missing from the filtered diff
BlankPreambleDropped ==
    /\ dp_pc = "run"
    /\ dp_raw = <<BlankLine, HeaderLine(yarn_lock, yarn_lock),
                  HeaderLine(app_py, app_py)>>
    /\ dp_ignored = <<yarn_lock>>
    /\ dp_files = <<app_py>>
    /\ dp_diff = <<HeaderLine(app_py, app_py)>>

\* a diff with a kept section between two ignored ones and text in each
IgnoredSectionsRemoved ==
    /\ dp_pc = "run"
    /\ dp_raw = <<HeaderLine(yarn_lock, yarn_lock), TextLine,
                  HeaderLine(app_py, app_py)>>
    /\ dp_diff = <<HeaderLine(app_py, app_py)>>
    /\ dp_ignored = <<yarn_lock>>


----------------------------------------------------------------------------
(* The files fetched for context and the arguments of the Orchestrator *)

\* the diff has a section whose header gives the path
ClaimHasSectionOf(d, path) == \E k \in 1..Len(d) : HeaderPath(d[k]) = path

\* C34: no file filter_diff put in its ignored list is passed to
\* get_file_content for context, is a key of the contents, or reaches the
\* Orchestrator as a file or as a section of the diff: context is requested
\* for kept files only, and supervisor.run is given exactly the filtered diff
\* and the kept list of filter_diff
C34_IgnoredFilesNeverUsed ==
    /\ dp_pc \in {"run", "done"} =>
         /\ Range(dp_fetched) \subseteq Range(dp_files)
         /\ dp_context \subseteq Range(dp_fetched)
         /\ \A path \in Range(dp_ignored) :
                 path \notin Range(dp_fetched) /\ path \notin dp_context
    /\ dp_pc = "done" =>
         /\ filter_diff(dp_raw, dp_patterns) =
                [filtered_diff |-> dp_run.diff, kept_files |-> dp_run.files,
                 ignored_files |-> dp_ignored]
         /\ \A path \in Range(dp_ignored) :
                 /\ path \notin Range(dp_run.files)
                 /\ ~ClaimHasSectionOf(dp_run.diff, path)

\* a diff of a kept file between two ignored ones, one by a built-in
\* pattern and one by the user's: content was requested and stored for the
\* kept file alone, and the Orchestrator got its section alone
C34_Witness ==
    /\ dp_pc = "done"
    /\ dp_raw = <<HeaderLine(yarn_lock, yarn_lock), HeaderLine(app_py, app_py),
                  HeaderLine(docs_md, docs_md)>>
    /\ dp_ignored = <<yarn_lock, docs_md>>
    /\ dp_fetched = <<app_py>>
    /\ dp_context = {app_py}
    /\ dp_run = [diff |-> <<HeaderLine(app_py, app_py)>>, files |-> <<app_py>>]


----------------------------------------------------------------------------
(* The calls of rate_limiter.increment of one run *)

\* supervisor.run was called and returned its result
ClaimOrchestratorSucceeded ==
    orchState = "returned" /\ failedAt # "supervisor_run"

\* C35: a run calls rate_limiter.increment at most once; a run that has
\* returned called it once when supervisor.run returned its result, and not
\* at all when the run failed before or inside supervisor.run or stopped at
\* the disabled settings, whatever the number of passes and of refused rate
\* checks of the run
C35_OneIncrementPerSuccessfulRun ==
    /\ incrCalls <= 1
    /\ incrCalls = 1 => ClaimOrchestratorSucceeded
    /\ Returned => (incrCalls = 1 <=> ClaimOrchestratorSucceeded)

\* what holds of every run: at most one call, made only after supervisor.run
\* returned its result, and made by every run that ended after that unless
\* the progress broadcast of line 292 raised
IncrementOnceUnlessBroadcastRaises ==
    /\ incrCalls <= 1
    /\ incrCalls = 1 => ClaimOrchestratorSucceeded
    /\ (Returned /\ ClaimOrchestratorSucceeded /\ incrCalls = 0) =>
           failedAt = "broadcast"

\* supervisor.run returned its result, the broadcast of line 292 raised and
\* the run ended without a call of increment
SucceededWithoutIncrement ==
    /\ Returned
    /\ ClaimOrchestratorSucceeded
    /\ orchCalls = 1
    /\ incrCalls = 0
    /\ failedAt = "broadcast"
    /\ Last(broadcasts) = "critique_agent"

\* a run with two refused rate checks and all its passes: one call
OneIncrementAfterRetries ==
    /\ Returned
    /\ cpCalls = <<FALSE, FALSE, TRUE>>
    /\ \A p \in Passes : analyzeCalls[p] = 1
    /\ incrCalls = 1
    /\ reviewStatus = "completed"


----------------------------------------------------------------------------
(* get_remaining and can_proceed of a RateLimiter *)

\* what the claim says get_remaining returns for the present key
ClaimRemaining ==
    IF ~lm_key.exists THEN lm_self.max_requests
    ELSE IF lm_self.max_requests - lm_key.count > 0
    THEN lm_self.max_requests - lm_key.count
    ELSE 0

\* the two queries gave what the claim says
ClaimQueriesAgree ==
    /\ lm_query.remaining = ClaimRemaining
    /\ lm_query.remaining >= 0
    /\ lm_query.proceed <=> lm_query.remaining > 0

\* C36 as stated, for every cap: get_remaining returns max(0, m - c), and m
\* when the counter is absent, it is never negative, and can_proceed is true
\* exactly when get_remaining is positive
C36_RemainingForEveryCap ==
    lm_query.asked => ClaimQueriesAgree

\* C36 for the caps of at least 1: get_remaining returns max(0, m - c), and m
\* when the counter is absent, it is never negative, and can_proceed is true
\* exactly when get_remaining is positive
C36_RemainingForPositiveCap ==
    (lm_query.asked /\ lm_self.max_requests >= 1) => ClaimQueriesAgree

\* the counter at the cap of the repository: nothing remains and can_proceed
\* is false
C36_Witness ==
    /\ lm_query.asked
    /\ lm_self.max_requests = max_requests
    /\ lm_key.exists /\ lm_key.count = max_requests
    /\ lm_query.remaining = 0
    /\ ~lm_query.proceed

\* a cap of 0 and no counter: nothing remains and can_proceed is true
ZeroCapProceeds ==
    /\ lm_query.asked
    /\ lm_self.max_requests = 0
    /\ ~lm_key.exists
    /\ lm_query.remaining = 0
    /\ lm_query.proceed

\* a negative cap and no counter: get_remaining is negative
NegativeCapRemaining ==
    /\ lm_query.asked
    /\ ~lm_key.exists
    /\ lm_query.remaining < 0


----------------------------------------------------------------------------
(* The expiry of the rate counter *)

\* no call of increment is between its two requests, and none has raised
ClaimCallsCompleted ==
    /\ \A r \in Callers : lm_pc[r] \in {"idle", "done"}
    /\ ~lm_failed

\* the caller whose step this is has just finished the call that created
\* the counter
ClaimCreatorFinishes ==
    \E r \in Callers :
        /\ lm_pc[r] = "incr" /\ lm_pc'[r] = "done"
        /\ lm_count[r] = 1

\* C37: a call of increment calls expire exactly when the count it returns
\* is 1; the expiry is set by that call alone, to window_seconds, and no
\* later increment moves it, so the time a counter has left only goes down;
\* and when the calls made have completed, concurrent ones included, a
\* counter that exists has an expiry
C37_ExpirySetByFirstIncrement ==
    [][/\ \A r \in Callers :
              lm_pc'[r] = "done" => (lm_expired'[r] <=> lm_count'[r] = 1)
       /\ (~HasExpiry(lm_key) /\ HasExpiry(lm_key')) =>
              /\ ClaimCreatorFinishes
              /\ lm_key'.ttl = lm_self.window_seconds
       /\ (HasExpiry(lm_key) /\ lm_key'.exists) =>
              /\ HasExpiry(lm_key')
              /\ lm_key'.ttl <= lm_key.ttl
       /\ (ClaimCallsCompleted' /\ lm_key'.exists) => HasExpiry(lm_key')]_vars

\* two concurrent calls on a key that did not exist: the one that got 1 set
\* the expiry, the one that got 2 did not, and a second of the window has
\* passed
C37_Witness ==
    /\ lm_self.window_seconds = 2
    /\ lm_pc = [r \in Callers |-> "done"]
    /\ \E r \in Callers : lm_count[r] = 1 /\ lm_expired[r]
    /\ \E r \in Callers : lm_count[r] = 2 /\ ~lm_expired[r]
    /\ lm_key = Counter(2, 1)

\* while the call that created the counter is between incr and expire, a
\* later call has completed and the counter has no expiry
NoExpiryWhileCreatorInFlight ==
    /\ \E r \in Callers : lm_pc[r] = "incr" /\ lm_count[r] = 1
    /\ \E r \in Callers : lm_pc[r] = "done" /\ lm_count[r] = 2
    /\ lm_key.exists /\ ~HasExpiry(lm_key)

\* the expire request of the creating call raised: the counter stays
\* without expiry after the later calls
NoExpiryAfterExpireRaised ==
    /\ \E r \in Callers : lm_pc[r] = "raised" /\ lm_count[r] = 1
    /\ \E r \in Callers : lm_pc[r] = "done" /\ lm_count[r] = 2
    /\ lm_key.exists /\ ~HasExpiry(lm_key)


----------------------------------------------------------------------------
(* The connection registry after connect, disconnect and broadcast *)

\* the step is the endpoint's disconnect of a websocket that is not in the
\* registry, or of a review id without key
ClaimDisconnectsUnregistered ==
    \E w \in WebSockets :
        /\ ws_life[w] = "open" /\ ws_life'[w] = "closed"
        /\ (~ws_keyed \/ w \notin Registered(active_connections))

\* C38: after every connect, disconnect and step of a broadcast the
\* registry maps the review id to no empty list; when a broadcast has
\* returned no listener whose send failed in it is in the registry; and a
\* disconnect of a listener or review id that is not registered leaves the
\* registry as it was
C38_RegistryInvariants ==
    [][/\ ws_keyed' => active_connections' # <<>>
       /\ ws_pc' = "done" =>
              \A w \in ClaimFailed' : w \notin Registered(active_connections')
       /\ ClaimDisconnectsUnregistered =>
              UNCHANGED <<active_connections, ws_keyed>>]_vars

\* a broadcast has removed the listener whose send failed and kept the one
\* that got the message; the endpoint of the removed one has called
\* disconnect for it as well
C38_Witness ==
    /\ ws_pc = "done"
    /\ ws_keyed
    /\ \E w \in ClaimFailed : ws_life[w] = "closed"
    /\ \E v \in ws_got : active_connections = <<v>> /\ ws_life[v] = "open"

\* the state before that disconnect: the listener is out of the registry
\* and its endpoint has not yet called disconnect
RemovedListenerStillOpen ==
    /\ ws_pc = "done"
    /\ \E w \in ClaimFailed :
          ws_life[w] = "open" /\ w \notin Registered(active_connections)
    /\ ws_keyed


----------------------------------------------------------------------------
(* The records and jobs of a webhook request *)

\* the request is a pull_request event with the action opened or synchronize
ClaimReviewable ==
    /\ wh_request.event = "pull_request"
    /\ wh_request.body.action \in {"opened", "synchronize"}

\* the request carries the signature of its body under the configured secret
ClaimValidSignature ==
    /\ wh_request.signature.present
    /\ wh_request.signature.prefix = "sha256="
    /\ wh_request.signature.key = wh_secret
    /\ wh_request.signature.msg = wh_request.body

\* the request has a Review record or a job
ClaimActedOn == wh_created > 0 \/ wh_scheduled > 0

\* at most one record and one job for a request, the two together when the
\* request is answered, and over all requests as many jobs as records
ClaimOneOfEach ==
    /\ wh_created <= 1 /\ wh_scheduled <= 1
    /\ wh_pc = "responded" => wh_created = wh_scheduled
    /\ wh_pc \in {"idle", "responded"} => wh_reviews = wh_jobs

\* C39: a request gets a Review record and a process_review job, one of
\* each, only when it is a pull_request event with the action opened or
\* synchronize; and with a webhook secret configured, a request without a
\* valid signature gets neither
C39_OnlySignedPullRequestsReviewed ==
    /\ ClaimOneOfEach
    /\ ClaimActedOn => ClaimReviewable
    /\ (ClaimActedOn /\ wh_secret # "") => ClaimValidSignature

\* what holds of every request: at most one record and one job, a job only
\* with its record, both only for opened and synchronize pull requests, and
\* with a secret configured never for a request whose signature header is
\* given and not valid
VerifiedRequestsOnly ==
    /\ wh_created <= 1 /\ wh_scheduled <= wh_created
    /\ wh_jobs <= wh_reviews
    /\ ClaimActedOn => ClaimReviewable
    /\ (ClaimActedOn /\ wh_secret # "" /\ HeaderGiven(wh_request.signature)) =>
           ClaimValidSignature

\* an answered request has its record without its job only when the
\* full_name of its repository has no "/"
RecordWithoutJobOnlyWithoutSlash ==
    (wh_pc = "responded" /\ wh_created # wh_scheduled) =>
        /\ ~wh_request.body.slash
        /\ wh_response = "raised"

\* a request whose repository.full_name has no "/": the Review record is
\* created and no job is scheduled
RecordWithoutJob ==
    /\ wh_pc = "responded"
    /\ wh_response = "raised"
    /\ ClaimReviewable
    /\ wh_created = 1 /\ wh_scheduled = 0
    /\ wh_reviews > wh_jobs

\* a secret is configured, the request has no signature header, and it got
\* its record and its job
UnsignedRequestReviewed ==
    /\ wh_pc = "responded"
    /\ wh_response = "processing"
    /\ wh_secret # ""
    /\ ~wh_request.signature.present
    /\ wh_created = 1 /\ wh_scheduled = 1

\* a secret is configured and a request signed with another key is refused
WrongKeyRefused ==
    /\ wh_pc = "responded"
    /\ wh_response = "401"
    /\ wh_secret = "s1"
    /\ wh_request.signature = Signed("sha256=", "s2", wh_request.body)
    /\ ~ClaimActedOn

\* a validly signed synchronize request after an ignored one: one record
\* and one job in all
SignedRequestReviewed ==
    /\ wh_pc = "responded"
    /\ wh_response = "processing"
    /\ wh_secret = "s1"
    /\ ClaimValidSignature
    /\ wh_request.body.action = "synchronize"
    /\ wh_handled = 2
    /\ wh_reviews = 1 /\ wh_jobs = 1

====
